---- MODULE Spec2Model ----
(***************************************************************************)
(* OAuth 2.0 authorization server of health-data-storage                   *)
(* (createAuthRoutes: /authorize, /google-callback, /token, /revoke,       *)
(* /introspect, /register) over the Client Registry, the Token Store and   *)
(* the User Directory.  Every `await authDb.x(...)` of a handler is one    *)
(* atomic store step; handlers with several store steps are in-flight      *)
(* requests whose steps interleave with those of other requests.           *)
(***************************************************************************)
EXTENDS Bags, FiniteSets, Integers, Sequences, TLC

(* ---------------- bounds of the model ---------------- *)
MaxTok == 3
MaxReq == 2
MaxTicks == 1
MaxDyn == 1
MaxMeals == 2

(* ---------------- program constants ---------------- *)
CodeTTL == 300
AccessTTL == 3600
RefreshTTL == 7200

SP == " "
StaticClient == "food-mcp-production"
StaticSecret == "static-secret"
GoodUri == "https://a.example/cb"
OtherUri == "http://b.example/cb"
EvilUri == "https://evil.example/cb"
FtpUri == "ftp://c.example/cb"
BadUri == "not a url"
GOOGLE_OAUTH_REDIRECT_URI == "https://auth.example/oauth/google-callback"
GoogleAuthEndpoint == "https://accounts.google.com/o/oauth2/v2/auth"
DynIds == <<"chatgpt_1", "chatgpt_2", "chatgpt_3">>
DynSecrets == <<"secret_1", "secret_2", "secret_3">>
Subjects == {"u1", "u2"}
Bogus == -1

(* ---------------- strings with spaces: split and join ---------------- *)
(* A scope string is a sequence of atoms; SP is the space character and    *)
(* every other atom is a run of non-space characters.  A word is the       *)
(* sequence of atoms between two spaces.                                   *)
Word(a) == <<a>>

RECURSIVE SplitAcc(_, _, _, _)
SplitAcc(s, i, cur, acc) ==
    IF i > Len(s) THEN Append(acc, cur)
    ELSE IF s[i] = SP THEN SplitAcc(s, i + 1, <<>>, Append(acc, cur))
    ELSE SplitAcc(s, i + 1, Append(cur, s[i]), acc)

Split(s) == SplitAcc(s, 1, <<>>, <<>>)

RECURSIVE Join(_)
Join(words) ==
    IF Len(words) = 0 THEN <<>>
    ELSE IF Len(words) = 1 THEN words[1]
    ELSE words[1] \o <<SP>> \o Join(Tail(words))

Includes(seq, x) == \E i \in 1..Len(seq) : seq[i] = x

RECURSIVE Filter(_, _)
Filter(seq, keep) ==
    IF Len(seq) = 0 THEN <<>>
    ELSE IF Head(seq) \in keep THEN <<Head(seq)>> \o Filter(Tail(seq), keep)
    ELSE Filter(Tail(seq), keep)

Range(seq) == {seq[i] : i \in 1..Len(seq)}

(* new URL(uri).protocol, or "throws" when the string is not an absolute URL *)
UrlProtocol(uri) ==
    CASE uri = GoodUri -> "https:"
      [] uri = EvilUri -> "https:"
      [] uri = OtherUri -> "http:"
      [] uri = FtpUri -> "ftp:"
      [] OTHER -> "throws"

(* ---------------- token strings ---------------- *)
Acc(n) == 2 * n - 1
Ref(n) == 2 * n

(* ---------------- state ---------------- *)
VARIABLES
    clients,     \* Client Registry: set of oauth client records
    users,       \* User Directory: sequence of user records, id = position
    minted,      \* every token row ever inserted, in insertion order
    liveAcc,     \* ids of the rows whose access token is in the Token Store
    liveRef,     \* ids of the rows whose refresh token is in the Token Store
    now,         \* current time (seconds)
    ticks,       \* number of clock advances so far
    inflight,    \* bag of requests between two store steps
    reply,       \* the HTTP response sent by the last step, if any
    origin,      \* history: how each minted row came about
    samples,     \* health samples database: set of stored sample rows
    food_logs,   \* food database: set of stored food log rows
    food_logs_id_seq   \* the SERIAL behind food_logs.id: last id handed out

vars == <<clients, users, minted, liveAcc, liveRef, now, ticks, inflight, reply, origin,
         samples, food_logs, food_logs_id_seq>>

NoReply == [ep |-> "none"]
NoLocation == [kind |-> "none"]
NoRow ==
    [found |-> FALSE, id |-> 0, access_token |-> 0, refresh_token |-> 0,
     user_id |-> 0, client_id |-> "", scopes |-> <<>>, issued_at |-> 0, expires_at |-> 0]
NoRequest == [client_id |-> "", redirect_uri |-> "", scope |-> <<>>, state |-> ""]

AllScopes == <<Word("read:food"), Word("write:food"), Word("profile")>>

Init ==
    /\ clients = {[client_id |-> StaticClient, client_secret |-> StaticSecret,
                   name |-> "Food MCP", redirect_uris |-> <<GoodUri>>,
                   allowed_scopes |-> AllScopes]}
    /\ users = <<>>
    /\ minted = <<>>
    /\ liveAcc = {}
    /\ liveRef = {}
    /\ now = 0
    /\ ticks = 0
    /\ inflight = EmptyBag
    /\ reply = NoReply
    /\ origin = <<>>
    /\ samples = {}
    /\ food_logs = {}
    /\ food_logs_id_seq = 0

(* ---------------- Client Registry ---------------- *)
HasClient(client_id) == \E c \in clients : c.client_id = client_id

GetOAuthClient(client_id) == CHOOSE c \in clients : c.client_id = client_id

VerifyClientCredentials(client_id, client_secret) ==
    \E c \in clients : c.client_id = client_id /\ c.client_secret = client_secret

DynCount == Cardinality(clients) - 1

CreateOAuthClient(client_id, name, redirect_uris, allowed_scopes) ==
    [client_id |-> client_id, client_secret |-> DynSecrets[DynCount + 1],
     name |-> name, redirect_uris |-> redirect_uris,
     allowed_scopes |-> allowed_scopes]

(* ---------------- User Directory ---------------- *)
EmailOf(sub) == <<sub, "@example.com">>

(* the n-th API key generated for user id: keys are random and never repeat *)
ApiKey(id, n) == 10 * id + n

FindUserByApiKey(apiKey) ==
    IF \E i \in 1..Len(users) : users[i].api_key = apiKey
    THEN CHOOSE i \in 1..Len(users) : users[i].api_key = apiKey
    ELSE 0

(* refreshApiKey(userId): a new key is generated and stored for the user *)
UsersAfterRefreshApiKey(id) ==
    [users EXCEPT ![id].api_key = ApiKey(id, users[id].rekeys + 1),
                  ![id].rekeys = @ + 1]

HasUser(sub) == \E i \in 1..Len(users) : users[i].google_id = sub

UserOfSub(sub) == CHOOSE i \in 1..Len(users) : users[i].google_id = sub

(* fault: every federation inserts a user record *)
UsersAfterFindOrCreate_AlwaysInsert(sub) ==
    Append(users, [id |-> Len(users) + 1, google_id |-> sub, email |-> EmailOf(sub),
                   api_key |-> ApiKey(Len(users) + 1, 0), rekeys |-> 0])

(* findOrCreateUser: upsert keyed by the federated subject id *)
UsersAfterFindOrCreate(sub) ==
    IF HasUser(sub) THEN users
    ELSE Append(users, [id |-> Len(users) + 1, google_id |-> sub, email |-> EmailOf(sub),
                   api_key |-> ApiKey(Len(users) + 1, 0), rekeys |-> 0])

FindOrCreateUserId(sub) == IF HasUser(sub) THEN UserOfSub(sub) ELSE Len(users) + 1

FindUserById(id) == id \in 1..Len(users)

(* ---------------- Token Store ---------------- *)
(* fault: the lookup returns rows whatever their expiry *)
Expired_Never(row) == FALSE

Expired(row) == now >= row.expires_at

RefreshExpired(row) == now >= row.issued_at + RefreshTTL

NewRow(user_id, client_id, scopes, ttl) ==
    LET n == Len(minted) + 1 IN
    [found |-> TRUE, id |-> n, access_token |-> Acc(n), refresh_token |-> Ref(n),
     user_id |-> user_id, client_id |-> client_id, scopes |-> scopes,
     issued_at |-> now, expires_at |-> now + ttl]

(* getOAuthToken: the row of an access token, an expired one counting as absent *)
GetOAuthToken(token) ==
    IF \E n \in liveAcc : minted[n].access_token = token /\ ~Expired(minted[n])
    THEN minted[CHOOSE n \in liveAcc : minted[n].access_token = token]
    ELSE NoRow

(* revokeOAuthToken: deletes the named token, and only that one *)
AccAfterRevoke(token) == {n \in liveAcc : minted[n].access_token # token}

RefAfterRevoke(token) == {n \in liveRef : minted[n].refresh_token # token}

(* fault: any row that ever carried the refresh token is rotated *)
Rotatable_Stale(token) == {n \in 1..Len(minted) : minted[n].refresh_token = token}

(* refreshOAuthToken: the row whose refresh token can be rotated now *)
Rotatable(token) ==
    {n \in liveRef : minted[n].refresh_token = token /\ ~RefreshExpired(minted[n])}

(* the token strings a caller can present: none, a made-up one, an issued one *)
AccessInputs == {0, Bogus} \cup {Acc(n) : n \in 1..Len(minted)}

RefreshInputs == {0, Bogus} \cup {Ref(n) : n \in 1..Len(minted)}

IssuedTokens == AccessInputs \cup RefreshInputs

(* ---------------- responses ---------------- *)
(* reply is the response a handler is sending; Deliver hands it to the      *)
(* caller.  The user agent that receives the redirect of /authorize goes    *)
(* on to the provider callback.                                            *)
Delivered == reply = NoReply

Deliver ==
    /\ ~Delivered
    /\ reply' = NoReply
    /\ UNCHANGED <<clients, users, minted, liveAcc, liveRef, now, ticks, food_logs, food_logs_id_seq, samples, inflight, origin>>

(* ---------------- the clock ---------------- *)
Tick(durations) ==
    /\ Delivered
    /\ ticks < MaxTicks
    /\ \E d \in durations : now' = now + d
    /\ ticks' = ticks + 1
    /\ reply' = NoReply
    /\ UNCHANGED <<clients, users, minted, liveAcc, liveRef, inflight, origin, samples,
                   food_logs, food_logs_id_seq>>

(* ---------------- inputs ---------------- *)
ReadWrite == <<"read:food", SP, "write:food">>

ReadAdmin == <<"read:food", SP, "admin">>

AuthorizeQuery(c, u, s, st, rt) ==
    [client_id |-> c, redirect_uri |-> u, scope |-> s, state |-> st, response_type |-> rt]

AuthorizeInputs ==
    {AuthorizeQuery(StaticClient, GoodUri, ReadWrite, "xyz", "code"),
     AuthorizeQuery(StaticClient, EvilUri, ReadWrite, "xyz", "code"),
     AuthorizeQuery(StaticClient, GoodUri, ReadAdmin, "xyz", "code"),
     AuthorizeQuery(DynIds[1], OtherUri, <<"read:food">>, "xyz", "code"),
     AuthorizeQuery(DynIds[1], GoodUri, <<"read:food">>, "xyz", "code"),
     AuthorizeQuery(DynIds[1], OtherUri, ReadWrite, "xyz", "code"),
     AuthorizeQuery(DynIds[1], EvilUri, <<"profile">>, "xyz", "code"),
     AuthorizeQuery("", GoodUri, ReadWrite, "xyz", "code"),
     AuthorizeQuery(StaticClient, "", ReadWrite, "xyz", "code"),
     AuthorizeQuery(StaticClient, GoodUri, <<>>, "xyz", "code"),
     AuthorizeQuery(StaticClient, GoodUri, ReadWrite, "", "code"),
     AuthorizeQuery(StaticClient, GoodUri, ReadWrite, "xyz", "token")}

RegisterBody(kind, items, scope) ==
    [redirect_uris |-> [kind |-> kind, items |-> items], client_name |-> "", scope |-> scope]

RegisterInputs ==
    {RegisterBody("array", <<EvilUri, OtherUri>>, <<>>),
     RegisterBody("array", <<EvilUri, OtherUri>>, ReadAdmin),
     RegisterBody("array", <<OtherUri>>, ReadWrite),
     RegisterBody("array", <<GoodUri>>, <<"admin">>),
     RegisterBody("missing", <<>>, <<>>),
     RegisterBody("string", <<GoodUri>>, <<>>),
     RegisterBody("array", <<>>, <<>>),
     RegisterBody("array", <<GoodUri, FtpUri>>, <<>>),
     RegisterBody("array", <<GoodUri, BadUri>>, <<>>)}

CredentialInputs ==
    {<<StaticClient, StaticSecret>>, <<DynIds[1], DynSecrets[1]>>, <<StaticClient, "wrong">>,
     <<"", StaticSecret>>, <<StaticClient, "">>}

(* ---------------- GET /oauth/authorize ---------------- *)
(* Buffer.from(JSON.stringify(o)).toString('base64') and its inverse       *)
EncodeState(o) == [kind |-> "json", json |-> o]

GarbageState == [kind |-> "garbage", json |-> NoRequest]

MissingState == [kind |-> "missing", json |-> NoRequest]

(* fault: the provider is told to call back the client's redirect_uri *)
GenerateAuthUrl_ClientUri(oauthState) ==
    [kind |-> "idp", url |-> GoogleAuthEndpoint,
     redirect_uri |-> oauthState.json.redirect_uri, state |-> oauthState]

GenerateAuthUrl(oauthState) ==
    [kind |-> "idp", url |-> GoogleAuthEndpoint,
     redirect_uri |-> GOOGLE_OAUTH_REDIRECT_URI, state |-> oauthState]

(* fault: the redirect_uri is not compared with the registered ones *)
RedirectUriAllowed_Any(client, redirect_uri) == TRUE

RedirectUriAllowed(client, redirect_uri) == Includes(client.redirect_uris, redirect_uri)

(* fault: no requested scope is ever found invalid *)
InvalidScopes_None(client, scope) == <<>>

InvalidScopes(client, scope) ==
    SelectSeq(Split(scope), LAMBDA s : ~Includes(client.allowed_scopes, s))

(* fault: an unknown client, a missing parameter or another response_type  *)
(* is answered with a redirect to the redirect_uri, carrying an error      *)
AuthorizeResponse_ErrorRedirect(q) ==
    IF q.client_id = "" \/ q.redirect_uri = "" \/ q.scope = <<>>
    THEN [status |-> 400, body |-> "Missing required parameters", location |-> NoLocation]
    ELSE IF q.response_type # "code" \/ ~HasClient(q.client_id)
    THEN [status |-> 302, body |-> "",
          location |-> [kind |-> "client", url |-> q.redirect_uri,
                        code |-> 0, state |-> q.state]]
    ELSE IF ~RedirectUriAllowed(GetOAuthClient(q.client_id), q.redirect_uri)
    THEN [status |-> 400, body |-> "Invalid redirect_uri", location |-> NoLocation]
    ELSE IF Len(InvalidScopes(GetOAuthClient(q.client_id), q.scope)) > 0
    THEN [status |-> 400, body |-> "Invalid scopes", location |-> NoLocation]
    ELSE [status |-> 302, body |-> "",
          location |-> GenerateAuthUrl(EncodeState(
              [client_id |-> q.client_id, redirect_uri |-> q.redirect_uri,
               scope |-> q.scope, state |-> q.state]))]

AuthorizeResponse(q) ==
    IF q.client_id = "" \/ q.redirect_uri = "" \/ q.scope = <<>>
    THEN [status |-> 400, body |-> "Missing required parameters", location |-> NoLocation]
    ELSE IF q.response_type # "code"
    THEN [status |-> 400, body |-> "Only response_type=code is supported", location |-> NoLocation]
    ELSE IF ~HasClient(q.client_id)
    THEN [status |-> 400, body |-> "Invalid client_id", location |-> NoLocation]
    ELSE IF ~RedirectUriAllowed(GetOAuthClient(q.client_id), q.redirect_uri)
    THEN [status |-> 400, body |-> "Invalid redirect_uri", location |-> NoLocation]
    ELSE IF Len(InvalidScopes(GetOAuthClient(q.client_id), q.scope)) > 0
    THEN [status |-> 400, body |-> "Invalid scopes", location |-> NoLocation]
    ELSE [status |-> 302, body |-> "",
          location |-> GenerateAuthUrl(EncodeState(
              [client_id |-> q.client_id, redirect_uri |-> q.redirect_uri,
               scope |-> q.scope, state |-> q.state]))]

Authorize(queries) ==
    \E q \in queries :
        /\ Delivered
        /\ reply' = [ep |-> "authorize", req |-> q] @@ AuthorizeResponse(q)
        /\ UNCHANGED <<clients, users, minted, liveAcc, liveRef, now, ticks, food_logs, food_logs_id_seq, samples, inflight, origin>>

(* ---------------- POST /oauth/introspect ---------------- *)
(* getOAuthToken and findUserById read rows that no request modifies, so   *)
(* the two reads are one step.                                             *)
IntrospectResponse(token) ==
    IF token = 0
    THEN [status |-> 400, active |-> FALSE, calls |-> {}]
    ELSE IF ~GetOAuthToken(token).found
    THEN [status |-> 200, active |-> FALSE, calls |-> {"getOAuthToken"}]
    ELSE IF ~FindUserById(GetOAuthToken(token).user_id)
    THEN [status |-> 200, active |-> FALSE, calls |-> {"getOAuthToken", "findUserById"}]
    ELSE [status |-> 200, active |-> TRUE, calls |-> {"getOAuthToken", "findUserById"},
          user_id |-> users[GetOAuthToken(token).user_id].id,
          email |-> users[GetOAuthToken(token).user_id].email,
          scopes |-> GetOAuthToken(token).scopes,
          exp |-> GetOAuthToken(token).expires_at]

(* fault: a token can be introspected once, the lookup deletes it *)
Introspect_Consumes(tokens) ==
    \E token \in tokens \cap IssuedTokens :
        /\ Delivered
        /\ reply' = [ep |-> "introspect", token |-> token] @@ IntrospectResponse(token)
        /\ liveAcc' = AccAfterRevoke(token)
        /\ UNCHANGED <<clients, users, minted, liveRef, now, ticks, food_logs, food_logs_id_seq, samples, inflight, origin>>

Introspect(tokens) ==
    \E token \in tokens \cap IssuedTokens :
        /\ Delivered
        /\ reply' = [ep |-> "introspect", token |-> token] @@ IntrospectResponse(token)
        /\ UNCHANGED <<clients, users, minted, liveAcc, liveRef, now, ticks, food_logs, food_logs_id_seq, samples, inflight, origin>>

(* ---------------- POST /oauth/register ---------------- *)
(* fault: only the first redirect URI is validated *)
RedirectUrisError_FirstOnly(r) ==
    IF r.kind # "array" \/ Len(r.items) = 0 THEN "redirect_uris is required and must be a non-empty array"
    ELSE IF UrlProtocol(r.items[1]) \notin {"https:", "http:"}
    THEN "Invalid redirect URI"
    ELSE ""

RedirectUrisError(r) ==
    IF r.kind # "array" \/ Len(r.items) = 0 THEN "redirect_uris is required and must be a non-empty array"
    ELSE IF \E i \in 1..Len(r.items) : UrlProtocol(r.items[i]) \notin {"https:", "http:"}
    THEN "Invalid redirect URI"
    ELSE ""

(* fault: the requested scopes are stored as they came *)
FinalScopes_Unfiltered(scope) == IF scope # <<>> THEN Split(scope) ELSE AllScopes

FinalScopes(scope) ==
    Filter(IF scope # <<>> THEN Split(scope) ELSE AllScopes, Range(AllScopes))

RegisteredClient(b) ==
    CreateOAuthClient(DynIds[DynCount + 1],
                      IF b.client_name = "" THEN "ChatGPT Dynamic Client" ELSE b.client_name,
                      b.redirect_uris.items, FinalScopes(b.scope))

Register(bodies) ==
    \E b \in bodies :
        /\ Delivered
        /\ UNCHANGED <<users, minted, liveAcc, liveRef, now, ticks, food_logs, food_logs_id_seq, samples, inflight, origin>>
        /\ IF RedirectUrisError(b.redirect_uris) # ""
           THEN /\ reply' = [ep |-> "register", req |-> b, status |-> 400,
                             error |-> "invalid_redirect_uri"]
                /\ UNCHANGED clients
           ELSE /\ DynCount < MaxDyn
                /\ clients' = clients \cup {RegisteredClient(b)}
                /\ reply' = [ep |-> "register", req |-> b, status |-> 201,
                             client_id |-> RegisteredClient(b).client_id,
                             client_secret |-> RegisteredClient(b).client_secret,
                             redirect_uris |-> b.redirect_uris.items]

(* ---------------- requests between two store steps ---------------- *)
Blank ==
    [ep |-> "", pc |-> "", grant_type |-> "", client_id |-> "", client_secret |-> "",
     tok |-> 0, tokenInfo |-> NoRow, user_id |-> 0, oauthRequest |-> NoRequest,
     sub |-> "", via |-> FALSE, after |-> FALSE, raced |-> FALSE, verified |-> FALSE]

Requests == BagToSet(inflight)

Enqueue(r) == inflight (+) SetToBag({r})

Dequeue(r) == inflight (-) SetToBag({r})

Advance(r, q) == (inflight (-) SetToBag({r})) (+) SetToBag({q})

HasRoom == BagCardinality(inflight) < MaxReq

(* history read off origin *)
Rows == 1..Len(minted)

Exchanges(m) == {n \in Rows : origin[n].kind = "exchange" /\ origin[n].parent = m}

Rotations(m) == {n \in Rows : origin[n].kind = "rotation" /\ origin[n].parent = m}

(* the row the provider callback inserted, from which row n descends *)
RECURSIVE CodeOf(_)
CodeOf(n) == IF origin[n].kind = "callback" THEN n ELSE CodeOf(origin[n].parent)

(* kind: the handler that inserted the row; parent: the row it was made    *)
(* from; sub, scope, via: the subject the provider confirmed, the scope    *)
(* string of the decoded state and whether that state came from a redirect *)
(* of /authorize; refRevoked, accRevoked: /revoke deleted the refresh      *)
(* token, the access token.                                                *)
Origin(kind, parent, sub, scope, via) ==
    [kind |-> kind, parent |-> parent, sub |-> sub, scope |-> scope, via |-> via,
     refRevoked |-> FALSE, accRevoked |-> FALSE]

Mint(row, org) ==
    /\ minted' = Append(minted, row)
    /\ origin' = Append(origin, org)

(* ---------------- POST /oauth/token ---------------- *)
GrantInputs == {"authorization_code", "refresh_token", "password"}

TokenInputs(grant, extra) ==
    IF grant = "authorization_code" THEN extra \cup {Acc(n) : n \in Rows}
    ELSE IF grant = "refresh_token" THEN extra \cup {Ref(n) : n \in Rows}
    ELSE {0}

TokenReply(r, status, error) ==
    [ep |-> "token", grant_type |-> r.grant_type, client_id |-> r.client_id,
     client_secret |-> r.client_secret, tok |-> r.tok, status |-> status,
     error |-> error, after |-> r.after, raced |-> r.raced, issued |-> 0,
     verified |-> r.verified, threw |-> ""]

(* history: the code was already exchanged, or the refresh token already   *)
(* rotated, when the request arrives                                       *)
Presented(grant, tok) ==
    \/ grant = "authorization_code" /\ \E m \in Rows : Acc(m) = tok /\ Exchanges(m) # {}
    \/ grant = "refresh_token" /\ \E m \in Rows : Ref(m) = tok /\ Rotations(m) # {}

(* fault: the result of verifyClientCredentials is ignored *)
ClientRejected_Never(r) == FALSE

(* if (!validClient) return res.status(401), at /token and at /revoke *)
ClientRejected(r) == ~VerifyClientCredentials(r.client_id, r.client_secret)

(* fault: every grant that is not authorization_code is taken for a refresh *)
GrantBranch_DefaultRefresh(grant) ==
    IF grant = "authorization_code" THEN "authorization_code" ELSE "refresh_token"

(* if (grant_type === 'authorization_code') ... else if (grant_type ===     *)
(* 'refresh_token') ... else                                                *)
GrantBranch(grant) ==
    IF grant = "authorization_code" THEN "authorization_code"
    ELSE IF grant = "refresh_token" THEN "refresh_token"
    ELSE "unsupported"

TokenStart(credentials, grants, extra) ==
    \E cred \in credentials, grant \in grants, tok \in IssuedTokens :
        LET r == [Blank EXCEPT !.ep = "token", !.grant_type = grant, !.client_id = cred[1],
                               !.client_secret = cred[2], !.tok = tok,
                               !.after = Presented(grant, tok)]
            (* from here on authDb.verifyClientCredentials has been called *)
            v == [r EXCEPT !.verified = TRUE]
        IN
        /\ Delivered
        /\ tok \in TokenInputs(grant, extra)
        /\ UNCHANGED <<clients, users, minted, liveAcc, liveRef, now, ticks, food_logs, food_logs_id_seq, samples, origin>>
        /\ IF r.client_id = "" \/ r.client_secret = ""
           THEN /\ reply' = TokenReply(r, 400, "client_id and client_secret are required")
                /\ UNCHANGED inflight
           ELSE IF ClientRejected(r)
           THEN /\ reply' = TokenReply(v, 401, "Invalid client credentials")
                /\ UNCHANGED inflight
           ELSE IF GrantBranch(grant) = "authorization_code"
           THEN IF tok = 0
                THEN /\ reply' = TokenReply(v, 400, "code is required")
                     /\ UNCHANGED inflight
                ELSE /\ HasRoom
                     /\ inflight' = Enqueue([v EXCEPT !.pc = "lookup"])
                     /\ reply' = NoReply
           ELSE IF GrantBranch(grant) = "refresh_token"
           THEN IF tok = 0
                THEN /\ reply' = TokenReply(v, 400, "refresh_token is required")
                     /\ UNCHANGED inflight
                ELSE /\ HasRoom
                     /\ inflight' = Enqueue([v EXCEPT !.pc = "rotate"])
                     /\ reply' = NoReply
           ELSE /\ reply' = TokenReply(v, 400, "Unsupported grant_type")
                /\ UNCHANGED inflight

(* fault: the client the code was issued to is not compared *)
CodeAccepted_AnyClient(r, tokenInfo) == tokenInfo.found

(* the checks between getOAuthToken(code) and revokeOAuthToken(code) *)
CodeAccepted(r, tokenInfo) == tokenInfo.found /\ tokenInfo.client_id = r.client_id

(* fault: the code is deleted before its client is compared *)
TokenLookup_ConsumeFirst(r) ==
    /\ Delivered
    /\ r.ep = "token" /\ r.pc = "lookup"
    /\ liveAcc' = AccAfterRevoke(r.tok)
    /\ liveRef' = RefAfterRevoke(r.tok)
    /\ UNCHANGED <<clients, users, minted, now, ticks, food_logs, food_logs_id_seq, samples, origin>>
    /\ IF CodeAccepted(r, GetOAuthToken(r.tok))
       THEN /\ inflight' = Advance(r, [r EXCEPT !.pc = "revoke", !.tokenInfo = GetOAuthToken(r.tok)])
            /\ reply' = NoReply
       ELSE /\ inflight' = Dequeue(r)
            /\ reply' = TokenReply(r, 401, "Invalid authorization code")

TokenLookup(r) ==
    /\ Delivered
    /\ r.ep = "token" /\ r.pc = "lookup"
    /\ UNCHANGED <<clients, users, minted, liveAcc, liveRef, now, ticks, food_logs, food_logs_id_seq, samples, origin>>
    /\ IF CodeAccepted(r, GetOAuthToken(r.tok))
       THEN /\ inflight' = Advance(r, [r EXCEPT !.pc = "revoke", !.tokenInfo = GetOAuthToken(r.tok)])
            /\ reply' = NoReply
       ELSE /\ inflight' = Dequeue(r)
            /\ reply' = TokenReply(r, 401, "Invalid authorization code")

(* fault: the handler goes on to createOAuthToken without deleting the code *)
TokenRevoke_Skip(r) ==
    /\ Delivered
    /\ r.ep = "token" /\ r.pc = "revoke"
    /\ inflight' = Advance(r, [r EXCEPT !.pc = "create"])
    /\ reply' = NoReply
    /\ UNCHANGED <<clients, users, minted, liveAcc, liveRef, now, ticks, food_logs, food_logs_id_seq, samples, origin>>

TokenRevoke(r) ==
    /\ Delivered
    /\ r.ep = "token" /\ r.pc = "revoke"
    /\ liveAcc' = AccAfterRevoke(r.tok)
    /\ liveRef' = RefAfterRevoke(r.tok)
    /\ inflight' = Advance(r, [r EXCEPT !.pc = "create"])
    /\ reply' = NoReply
    /\ UNCHANGED <<clients, users, minted, now, ticks, food_logs, food_logs_id_seq, samples, origin>>

(* fault: the response names the first granted scope only *)
ExchangeBody_FirstScope(r, newToken) ==
    [access_token |-> newToken.access_token, token_type |-> "Bearer",
     expires_in |-> newToken.expires_at - newToken.issued_at,
     refresh_token |-> newToken.refresh_token, scope |-> Head(r.tokenInfo.scopes)]

ExchangeBody(r, newToken) ==
    [access_token |-> newToken.access_token, token_type |-> "Bearer",
     expires_in |-> newToken.expires_at - newToken.issued_at,
     refresh_token |-> newToken.refresh_token, scope |-> Join(r.tokenInfo.scopes)]

(* fault: the pair is granted every scope the client may ask for *)
ExchangedToken_AllowedScopes(r) ==
    NewRow(r.tokenInfo.user_id, r.client_id, GetOAuthClient(r.client_id).allowed_scopes,
           AccessTTL)

ExchangedToken(r) ==
    NewRow(r.tokenInfo.user_id, r.client_id, r.tokenInfo.scopes, AccessTTL)

TokenCreate(r) ==
    /\ Delivered
    /\ r.ep = "token" /\ r.pc = "create"
    /\ Len(minted) < MaxTok
    /\ LET newToken == ExchangedToken(r)
       IN /\ Mint(newToken, Origin("exchange", r.tokenInfo.id, "", <<>>, FALSE))
          /\ liveAcc' = liveAcc \cup {newToken.id}
          /\ liveRef' = liveRef \cup {newToken.id}
          /\ reply' = ExchangeBody(r, newToken) @@ [TokenReply(r, 200, "") EXCEPT !.issued = 1]
    /\ inflight' = Dequeue(r)
    /\ UNCHANGED <<clients, users, now, ticks, food_logs, food_logs_id_seq, samples>>

(* fault: the rotated refresh token stays in the store *)
RefAfterRotate_Keep(n) == liveRef

(* refreshOAuthToken: one atomic conditional delete-and-insert on the store *)
RefAfterRotate(n) == liveRef \ {n}

RaceMarked(r, q) ==
    IF q.ep = "token" /\ q.pc = "rotate" /\ q.tok = r.tok
    THEN [q EXCEPT !.raced = TRUE] ELSE q

RECURSIVE MarkAll(_, _, _)
MarkAll(r, todo, bag) ==
    IF todo = {} THEN bag
    ELSE LET q == CHOOSE x \in todo : TRUE
         IN MarkAll(r, todo \ {q},
                    bag (+) [x \in {RaceMarked(r, q)} |-> CopiesIn(q, Dequeue(r))])

RefreshBody(newToken) ==
    [access_token |-> newToken.access_token, token_type |-> "Bearer",
     expires_in |-> newToken.expires_at - newToken.issued_at,
     refresh_token |-> newToken.refresh_token]

(* fault: the new pair is granted every scope the client may ask for *)
RotatedToken_AllowedScopes(n) ==
    NewRow(minted[n].user_id, minted[n].client_id,
           GetOAuthClient(minted[n].client_id).allowed_scopes, AccessTTL)

(* refreshOAuthToken: the pair that replaces row n *)
RotatedToken(n) ==
    NewRow(minted[n].user_id, minted[n].client_id, minted[n].scopes, AccessTTL)

TokenRotate(r) ==
    /\ Delivered
    /\ r.ep = "token" /\ r.pc = "rotate"
    /\ UNCHANGED <<clients, users, now, ticks, food_logs, food_logs_id_seq, samples>>
    /\ IF Rotatable(r.tok) = {}
       THEN /\ inflight' = Dequeue(r)
            /\ reply' = TokenReply(r, 401, "Invalid refresh token")
            /\ UNCHANGED <<minted, liveAcc, liveRef, origin>>
       ELSE /\ Len(minted) < MaxTok
            /\ LET n == CHOOSE m \in Rotatable(r.tok) : TRUE
                   newToken == RotatedToken(n)
               IN /\ Mint(newToken, Origin("rotation", n, "", <<>>, FALSE))
                  /\ liveAcc' = liveAcc \cup {newToken.id}
                  /\ liveRef' = RefAfterRotate(n) \cup {newToken.id}
                  /\ reply' = RefreshBody(newToken) @@ [TokenReply(r, 200, "") EXCEPT !.issued = 1]
            /\ inflight' = MarkAll(r, BagToSet(Dequeue(r)), EmptyBag)

(* the store call a token request is waiting for throws: the catch block  *)
(* of the handler answers 500, and what earlier calls did stays done       *)
TokenStoreThrows(r) ==
    /\ Delivered
    /\ r.ep = "token" /\ r.pc \in {"lookup", "revoke", "create", "rotate"}
    /\ inflight' = Dequeue(r)
    /\ reply' = [TokenReply(r, 500, "Internal server error") EXCEPT !.threw = r.pc]
    /\ UNCHANGED <<clients, users, minted, liveAcc, liveRef, now, ticks, food_logs, food_logs_id_seq, samples, origin>>

(* ---------------- POST /oauth/revoke ---------------- *)
(* fault: a token that is not in the store is reported as not found *)
RevokeReply_NotFound(r, status, error) ==
    LET absent == /\ status = 200
                  /\ ~\E n \in liveAcc : minted[n].access_token = r.tok
                  /\ ~\E n \in liveRef : minted[n].refresh_token = r.tok
    IN [ep |-> "revoke", client_id |-> r.client_id, client_secret |-> r.client_secret,
        tok |-> r.tok, status |-> IF absent THEN 404 ELSE status,
        error |-> IF absent THEN "Token not found" ELSE error,
        success |-> (status = 200 /\ ~absent)]

RevokeReply(r, status, error) ==
    [ep |-> "revoke", client_id |-> r.client_id, client_secret |-> r.client_secret,
     tok |-> r.tok, status |-> status, error |-> error, success |-> (status = 200),
     verified |-> r.verified]

(* fault: /revoke does not ask for the token *)
RevokeMalformed_TokenOptional(r) == r.client_id = "" \/ r.client_secret = ""

(* if (!token || !client_id || !client_secret) *)
RevokeMalformed(r) == r.tok = 0 \/ r.client_id = "" \/ r.client_secret = ""

RevokeStart(credentials, tokens) ==
    \E cred \in credentials, tok \in tokens \cap IssuedTokens :
        LET r == [Blank EXCEPT !.ep = "revoke", !.client_id = cred[1],
                               !.client_secret = cred[2], !.tok = tok]
            v == [r EXCEPT !.verified = TRUE]
        IN
        /\ Delivered
        /\ UNCHANGED <<clients, users, minted, liveAcc, liveRef, now, ticks, food_logs, food_logs_id_seq, samples, origin>>
        /\ IF RevokeMalformed(r)
           THEN /\ reply' = RevokeReply(r, 400, "token, client_id, and client_secret are required")
                /\ UNCHANGED inflight
           ELSE IF ClientRejected(r)
           THEN /\ reply' = RevokeReply(v, 401, "Invalid client credentials")
                /\ UNCHANGED inflight
           ELSE /\ HasRoom
                /\ inflight' = Enqueue([v EXCEPT !.pc = "revoking"])
                /\ reply' = NoReply

(* history: the halves of the rows that carried the token /revoke names *)
Revoked(tok) ==
    [n \in Rows |->
        [origin[n] EXCEPT
            !.refRevoked = @ \/ (n \in liveRef /\ minted[n].refresh_token = tok),
            !.accRevoked = @ \/ (n \in liveAcc /\ minted[n].access_token = tok)]]

(* fault: the handler answers success without calling revokeOAuthToken *)
RevokeDo_Skip(r) ==
    /\ Delivered
    /\ r.ep = "revoke" /\ r.pc = "revoking"
    /\ origin' = Revoked(r.tok)
    /\ inflight' = Dequeue(r)
    /\ reply' = RevokeReply(r, 200, "")
    /\ UNCHANGED <<clients, users, minted, liveAcc, liveRef, now, ticks, food_logs, food_logs_id_seq, samples>>

RevokeDo(r) ==
    /\ Delivered
    /\ r.ep = "revoke" /\ r.pc = "revoking"
    /\ liveAcc' = AccAfterRevoke(r.tok)
    /\ liveRef' = RefAfterRevoke(r.tok)
    /\ origin' = Revoked(r.tok)
    /\ inflight' = Dequeue(r)
    /\ reply' = RevokeReply(r, 200, "")
    /\ UNCHANGED <<clients, users, minted, now, ticks, food_logs, food_logs_id_seq, samples>>

(* ---------------- GET /oauth/google-callback ---------------- *)
StateInputs ==
    {MissingState, GarbageState,
     EncodeState([client_id |-> StaticClient, redirect_uri |-> EvilUri,
                  scope |-> ReadAdmin, state |-> "xyz"]),
     EncodeState([client_id |-> StaticClient, redirect_uri |-> BadUri,
                  scope |-> <<"read:food">>, state |-> ""])}

(* what the upstream calls of the callback answer: getToken, verifyIdToken, *)
(* and findOrCreateUser                                                    *)
IdpOutcomes == {"token_error", "verify_error", "no_payload", "db_error"} \cup Subjects

CallbackReply(code, state, status, body, location) ==
    [ep |-> "callback", code |-> code, state |-> state, status |-> status,
     body |-> body, location |-> location]

(* fault: a failed code exchange or assertion check is not noticed *)
IdpThrows_Never(idp) == FALSE

(* googleClient.getToken or verifyIdToken throws *)
IdpThrows(idp) == idp \in {"token_error", "verify_error"}

(* fault: an assertion without a payload is trusted *)
PayloadMissing_Ignored(idp) == FALSE

(* const payload = ticket.getPayload(); if (!payload) *)
PayloadMissing(idp) == idp = "no_payload"

(* authDb.findOrCreateUser throws: the catch block answers *)
StoreThrows(idp) == idp = "db_error"

CallbackStart(codes, states, outcomes) ==
    \E code \in codes, state \in states, idp \in outcomes :
        /\ Delivered \/ reply.ep = "authorize"
        /\ UNCHANGED <<clients, minted, liveAcc, liveRef, now, ticks, food_logs, food_logs_id_seq, samples, origin>>
        /\ IF code = "" \/ state.kind = "missing"
           THEN /\ reply' = CallbackReply(code, state, 400, "Missing code or state", NoLocation)
                /\ UNCHANGED <<users, inflight>>
           ELSE IF state.kind = "garbage" \/ IdpThrows(idp)
           THEN /\ reply' = CallbackReply(code, state, 500, "Authentication failed", NoLocation)
                /\ UNCHANGED <<users, inflight>>
           ELSE IF PayloadMissing(idp)
           THEN /\ reply' = CallbackReply(code, state, 401, "Invalid Google token", NoLocation)
                /\ UNCHANGED <<users, inflight>>
           ELSE IF StoreThrows(idp)
           THEN /\ reply' = CallbackReply(code, state, 500, "Authentication failed", NoLocation)
                /\ UNCHANGED <<users, inflight>>
           ELSE /\ HasRoom
                /\ users' = UsersAfterFindOrCreate(idp)
                /\ inflight' = Enqueue([Blank EXCEPT !.ep = "callback", !.pc = "mint",
                                           !.user_id = FindOrCreateUserId(idp),
                                           !.oauthRequest = state.json, !.sub = idp,
                                           !.via = (/\ reply.ep = "authorize"
                                                    /\ reply.status = 302
                                                    /\ reply.location.state = state)])
                /\ reply' = NoReply

(* fault: the client's state value is left out of the redirect *)
CallbackRedirect_NoState(r, authCode) ==
    [kind |-> "client", url |-> r.oauthRequest.redirect_uri,
     code |-> authCode.access_token, state |-> ""]

CallbackRedirect(r, authCode) ==
    [kind |-> "client", url |-> r.oauthRequest.redirect_uri,
     code |-> authCode.access_token, state |-> r.oauthRequest.state]

CallbackMint(r) ==
    /\ Delivered
    /\ r.ep = "callback" /\ r.pc = "mint"
    /\ Len(minted) < MaxTok
    /\ LET authCode == NewRow(r.user_id, r.oauthRequest.client_id,
                              Split(r.oauthRequest.scope), CodeTTL)
       IN /\ Mint(authCode, Origin("callback", 0, r.sub, r.oauthRequest.scope, r.via))
          /\ liveAcc' = liveAcc \cup {authCode.id}
          /\ liveRef' = liveRef \cup {authCode.id}
          /\ reply' = IF UrlProtocol(r.oauthRequest.redirect_uri) = "throws"
                      THEN CallbackReply("gcode", EncodeState(r.oauthRequest), 500,
                                         "Authentication failed", NoLocation)
                      ELSE CallbackReply("gcode", EncodeState(r.oauthRequest), 302, "",
                                         CallbackRedirect(r, authCode))
    /\ inflight' = Dequeue(r)
    /\ UNCHANGED <<clients, users, now, ticks, food_logs, food_logs_id_seq, samples>>

(* ---------------- POST /auth/google ---------------- *)
GoogleReply(idToken, sub, status, userId) ==
    [ep |-> "google", idToken |-> idToken, sub |-> sub, status |-> status, userId |-> userId]

AuthGoogle(idTokens, outcomes) ==
    \E idToken \in idTokens, idp \in outcomes :
        /\ Delivered
        /\ UNCHANGED <<clients, minted, liveAcc, liveRef, now, ticks, food_logs, food_logs_id_seq, samples, inflight, origin>>
        /\ IF idToken = ""
           THEN /\ reply' = GoogleReply(idToken, "", 400, 0)
                /\ UNCHANGED users
           ELSE IF IdpThrows(idp) \/ PayloadMissing(idp) \/ StoreThrows(idp)
           THEN /\ reply' = GoogleReply(idToken, "", 401, 0)
                /\ UNCHANGED users
           ELSE /\ users' = UsersAfterFindOrCreate(idp)
                /\ reply' = GoogleReply(idToken, idp, 200, FindOrCreateUserId(idp))

(* ---------------- POST /auth/api-key/refresh, GET /auth/me ---------------- *)
(* Authorization headers: none, not a bearer, a bearer of any key ever issued *)
BearerInputs ==
    {0, Bogus} \cup {ApiKey(i, n) : i \in 1..Len(users), n \in 0..MaxTok}

ApiKeyReply(route, presented, status, userId, apiKey) ==
    [ep |-> "apikey", route |-> route, presented |-> presented, status |-> status,
     userId |-> userId, apiKey |-> apiKey]

ApiKeyRefreshStart ==
    \E currentApiKey \in BearerInputs :
        LET r == [Blank EXCEPT !.ep = "apikey", !.pc = "refreshApiKey",
                               !.tok = currentApiKey,
                               !.user_id = FindUserByApiKey(currentApiKey)]
        IN
        /\ Delivered
        /\ UNCHANGED <<clients, users, minted, liveAcc, liveRef, now, ticks, food_logs, food_logs_id_seq, samples, origin>>
        /\ IF currentApiKey = 0 \/ r.user_id = 0
           THEN /\ reply' = ApiKeyReply("refresh", currentApiKey, 401, 0, 0)
                /\ UNCHANGED inflight
           ELSE /\ HasRoom
                /\ users[r.user_id].rekeys + BagCardinality(inflight) < MaxTok
                /\ inflight' = Enqueue(r)
                /\ reply' = NoReply

ApiKeyRefreshDo(r) ==
    /\ Delivered
    /\ r.ep = "apikey" /\ r.pc = "refreshApiKey"
    /\ users' = UsersAfterRefreshApiKey(r.user_id)
    /\ inflight' = Dequeue(r)
    /\ reply' = ApiKeyReply("refresh", r.tok, 200, r.user_id, users'[r.user_id].api_key)
    /\ UNCHANGED <<clients, minted, liveAcc, liveRef, now, ticks, food_logs, food_logs_id_seq, samples, origin>>

Me ==
    \E apiKey \in BearerInputs :
        /\ Delivered
        /\ UNCHANGED <<clients, users, minted, liveAcc, liveRef, now, ticks, food_logs, food_logs_id_seq, samples, inflight, origin>>
        /\ reply' = IF apiKey = 0 \/ FindUserByApiKey(apiKey) = 0
                    THEN ApiKeyReply("me", apiKey, 401, 0, 0)
                    ELSE ApiKeyReply("me", apiKey, 200, FindUserByApiKey(apiKey), apiKey)

(* ---------------- /api/samples ---------------- *)
API_SECRET == "api-secret"

(* request samples: two with one key and different values, written with   *)
(* different offsets; one without source; one without type; one whose     *)
(* startDate is not a date                                                *)
SampleInputs ==
    {[type |-> "BloodGlucose", value |-> 95, startDate |-> "2025-10-22T10:30:00Z",
      source |-> "Lingo"],
     [type |-> "BloodGlucose", value |-> 110, startDate |-> "2025-10-22T12:30:00+02:00",
      source |-> "Lingo"],
     [type |-> "BloodGlucose", value |-> 95, startDate |-> "2025-10-22T11:00:00Z",
      source |-> ""],
     [type |-> "", value |-> 95, startDate |-> "2025-10-22T11:00:00Z", source |-> "Lingo"],
     [type |-> "BloodGlucose", value |-> 95, startDate |-> "yesterday", source |-> "Lingo"]}

SecretInputs == {"", "invalid-secret", API_SECRET}

(* fault: any X-API-Secret header is accepted *)
AuthenticateRequest_AnySecret(apiSecret) == apiSecret # ""

(* authenticateRequest: next() is called *)
AuthenticateRequest(apiSecret) == ~(apiSecret = "" \/ apiSecret # API_SECRET)

SamplesOf(userId, type) ==
    {x \in samples : x.user_id = userId /\ (type = "" \/ x.type = type)}

SamplesReply(route, apiSecret, userId, status, calls) ==
    [ep |-> "samples", route |-> route, secret |-> apiSecret, userId |-> userId,
     status |-> status, calls |-> calls]

(* new Date(startDate): the instant, in minutes of the day 2025-10-22 UTC, *)
(* or -1 for an Invalid Date                                               *)
ParseDate(startDate) ==
    CASE startDate = "2025-10-22T10:30:00Z" -> 630
      [] startDate = "2025-10-22T12:30:00+02:00" -> 630
      [] startDate = "2025-10-22T11:00:00Z" -> 660
      [] OTHER -> -1

(* samples.map(...): the request's samples in database format *)
HealthSamples(userId, batch) ==
    [i \in 1..Len(batch) |->
        [user_id |-> userId, type |-> batch[i].type, value |-> batch[i].value,
         start_date |-> ParseDate(batch[i].startDate),
         source |-> IF batch[i].source = "" THEN "Unknown" ELSE batch[i].source]]

(* fault: the value is part of the conflict key *)
SampleKey_WithValue(x) == <<x.user_id, x.type, x.start_date, x.source, x.value>>

(* UNIQUE(user_id, type, start_date, source) *)
SampleKey(x) == <<x.user_id, x.type, x.start_date, x.source>>

(* the INSERT is refused: type is NOT NULL, start_date must be a timestamp *)
InsertFails(x) == x.type = "" \/ x.start_date = -1

(* fault: the rows inserted before the failure stay *)
Rollback_Keep(before, after) == after

(* ROLLBACK: the table as it was at BEGIN *)
Rollback(before, after) == before

(* the for loop of storeSamples from sample i on, inside the transaction *)
RECURSIVE InsertFrom(_, _, _, _)
InsertFrom(table, rows, i, insertedCount) ==
    IF i > Len(rows)
    THEN [table |-> table, insertedCount |-> insertedCount, threw |-> FALSE, sent |-> i - 1]
    ELSE IF InsertFails(rows[i])
    THEN [table |-> table, insertedCount |-> insertedCount, threw |-> TRUE, sent |-> i]
    ELSE IF \E x \in table : SampleKey(x) = SampleKey(rows[i])
    THEN InsertFrom(table, rows, i + 1, insertedCount)
    ELSE InsertFrom(table \cup {rows[i]}, rows, i + 1, insertedCount + 1)

(* storeSamples: the table afterwards, the count returned or the error    *)
(* thrown, and the statements sent on the pooled connection               *)
StoreSamples(rows) ==
    LET done == InsertFrom(samples, rows, 1, 0)
        inserts == [i \in 1..done.sent |-> "INSERT"]
    IN
    IF done.threw
    THEN [table |-> Rollback(samples, done.table), insertedCount |-> 0, threw |-> TRUE,
          sql |-> <<"connect", "BEGIN">> \o inserts \o <<"ROLLBACK", "release">>]
    ELSE [table |-> done.table, insertedCount |-> done.insertedCount, threw |-> FALSE,
          sql |-> <<"connect", "BEGIN">> \o inserts \o <<"COMMIT", "release">>]

PostSamples(secrets, batches) ==
    \E apiSecret \in secrets, userId \in {""} \cup Subjects, batch \in batches :
        LET stored == StoreSamples(HealthSamples(userId, batch))
            body == [batch |-> batch, inserted |-> stored.insertedCount,
                     total |-> Len(batch), sql |-> stored.sql]
        IN
        /\ Delivered
        /\ UNCHANGED <<clients, users, minted, liveAcc, liveRef, now, ticks, food_logs, food_logs_id_seq, inflight, origin>>
        /\ IF ~AuthenticateRequest(apiSecret)
           THEN /\ reply' = SamplesReply("POST /api/samples", apiSecret, userId, 401, {})
                /\ UNCHANGED samples
           ELSE IF userId = "" \/ batch = <<>>
           THEN /\ reply' = SamplesReply("POST /api/samples", apiSecret, userId, 400, {})
                /\ UNCHANGED samples
           ELSE /\ samples' = stored.table
                /\ reply' = body @@ SamplesReply("POST /api/samples", apiSecret, userId,
                                                 IF stored.threw THEN 500 ELSE 200,
                                                 {"storeSamples"})

GetSamples(secrets) ==
    \E apiSecret \in secrets, userId \in {""} \cup Subjects,
       type \in {"", "BloodGlucose"} :
        /\ Delivered
        /\ UNCHANGED <<clients, users, minted, liveAcc, liveRef, now, ticks, food_logs, food_logs_id_seq, inflight, origin,
                       samples>>
        /\ reply' = IF ~AuthenticateRequest(apiSecret)
                    THEN SamplesReply("GET /api/samples", apiSecret, userId, 401, {})
                    ELSE IF userId = ""
                    THEN SamplesReply("GET /api/samples", apiSecret, userId, 400, {})
                    ELSE [count |-> Cardinality(SamplesOf(userId, type))]
                         @@ SamplesReply("GET /api/samples", apiSecret, userId, 200,
                                         {"querySamples"})

GetLatest(secrets) ==
    \E apiSecret \in secrets, userId \in {""} \cup Subjects,
       type \in {"", "BloodGlucose"} :
        /\ Delivered
        /\ UNCHANGED <<clients, users, minted, liveAcc, liveRef, now, ticks, food_logs, food_logs_id_seq, inflight, origin,
                       samples>>
        /\ reply' = IF ~AuthenticateRequest(apiSecret)
                    THEN SamplesReply("GET /api/samples/latest", apiSecret, userId, 401, {})
                    ELSE IF userId = "" \/ type = ""
                    THEN SamplesReply("GET /api/samples/latest", apiSecret, userId, 400, {})
                    ELSE SamplesReply("GET /api/samples/latest", apiSecret, userId,
                                      IF SamplesOf(userId, type) = {} THEN 404 ELSE 200,
                                      {"getLatestSample"})

GetStats(secrets) ==
    \E apiSecret \in secrets, userId \in {""} \cup Subjects,
       type \in {"", "BloodGlucose"} :
        /\ Delivered
        /\ UNCHANGED <<clients, users, minted, liveAcc, liveRef, now, ticks, food_logs, food_logs_id_seq, inflight, origin,
                       samples>>
        /\ reply' = IF ~AuthenticateRequest(apiSecret)
                    THEN SamplesReply("GET /api/samples/stats", apiSecret, userId, 401, {})
                    ELSE IF userId = "" \/ type = ""
                    THEN SamplesReply("GET /api/samples/stats", apiSecret, userId, 400, {})
                    ELSE SamplesReply("GET /api/samples/stats", apiSecret, userId,
                                      IF SamplesOf(userId, type) = {} THEN 404 ELSE 200,
                                      {"getSummaryStats"})

(* ---------------- /api/food ---------------- *)
(* timestamps are hours since 2025-10-26T00:00:00Z                         *)
(* fault: the day is taken in UTC *)
LADate_UTC(timestamp) == timestamp \div 24

(* DATE(timestamp AT TIME ZONE 'America/Los_Angeles'), in days since       *)
(* 2025-10-26; Los Angeles is 7 hours behind UTC on these days             *)
LADate(timestamp) == (timestamp - 7) \div 24

(* updateFoodLog: the fields it knows are set on the row of that id; with  *)
(* none of them in the updates no statement is sent                        *)
UpdateFoodLog(table, id, updates) ==
    LET fields == DOMAIN updates \cap {"net_carbs", "protein", "fat", "calories", "notes",
                                       "manual_override"}
    IN
    IF fields = {}
    THEN [rows |-> table, updated |-> FALSE]
    ELSE [rows |-> {IF x.id = id
                    THEN [f \in DOMAIN x |-> IF f \in fields THEN updates[f] ELSE x[f]]
                    ELSE x : x \in table},
          updated |-> \E x \in table : x.id = id]

(* fault: the owner of the meal is not compared *)
DeleteFoodLog_AnyOwner(id, userId) == {x \in food_logs : x.id # id}

(* deleteFoodLog: DELETE FROM food_logs WHERE id = $1 AND user_id = $2 *)
DeleteFoodLog(id, userId) == {x \in food_logs : ~(x.id = id /\ x.user_id = userId)}

RECURSIVE Sum(_, _)
Sum(rows, field) ==
    IF rows = {} THEN 0
    ELSE LET x == CHOOSE y \in rows : TRUE IN x[field] + Sum(rows \ {x}, field)

(* getDailySummary: null when no row matches, else the grouped sums *)
GetDailySummary(userId, day) ==
    LET rows == {x \in food_logs : x.user_id = userId /\ LADate(x.timestamp) = day}
    IN
    IF rows = {} THEN [found |-> FALSE]
    ELSE [found |-> TRUE,
          total_net_carbs |-> Sum(rows, "net_carbs"), total_protein |-> Sum(rows, "protein"),
          total_fat |-> Sum(rows, "fat"), total_calories |-> Sum(rows, "calories"),
          meal_count |-> Cardinality(rows)]

FoodReply(route, req, status, body) ==
    [ep |-> "food", route |-> route, req |-> req, status |-> status, body |-> body]

(* POST /api/food/log; macros, foods and confidence are always supplied *)
PostLog(userIds, timestamps, images) ==
    \E userId \in userIds, timestamp \in timestamps, image \in images,
       upload \in {"stored", "throws"} :
        LET req == [userId |-> userId, timestamp |-> timestamp, image |-> image]
            mealId == food_logs_id_seq + 1
            log == [id |-> mealId, user_id |-> userId,
                    timestamp |-> CASE timestamp = "2025-10-26T03:00:00Z" -> 3
                                    [] timestamp = "2025-10-26T12:00:00Z" -> 12
                                    [] OTHER -> 29,
                    photo_url |-> <<>>, net_carbs |-> 2, protein |-> 28, fat |-> 24,
                    calories |-> 340, foods |-> <<"4 eggs">>, meal_type |-> "breakfast",
                    manual_override |-> FALSE, notes |-> ""]
            photoUrl == <<"photos", userId, mealId>>
        IN
        /\ Delivered
        /\ image = "" => upload = "stored"
        /\ UNCHANGED <<clients, users, minted, liveAcc, liveRef, now, ticks, samples, inflight,
                       origin>>
        /\ IF userId = "" \/ timestamp = ""
           THEN /\ reply' = FoodReply("POST /log", req, 400, [success |-> FALSE])
                /\ UNCHANGED <<food_logs, food_logs_id_seq>>
           ELSE /\ food_logs_id_seq < MaxMeals
                /\ food_logs_id_seq' = mealId
                /\ IF image = ""
                   THEN /\ food_logs' = food_logs \cup {log}
                        /\ reply' = FoodReply("POST /log", req, 200,
                                              [success |-> TRUE, mealId |-> mealId,
                                               photoUrl |-> <<>>])
                   ELSE IF upload = "throws"
                   THEN /\ food_logs' = food_logs \cup {log}
                        /\ reply' = FoodReply("POST /log", req, 500, [success |-> FALSE])
                   ELSE /\ food_logs' = UpdateFoodLog(food_logs \cup {log}, mealId,
                                                      [photo_url |-> photoUrl]).rows
                        /\ reply' = FoodReply("POST /log", req, 200,
                                              [success |-> TRUE, mealId |-> mealId,
                                               photoUrl |-> photoUrl])

(* the updates object PUT builds from the body *)
PutUpdates(body) ==
    LET macro(f) == "macros" \in DOMAIN body /\ f \in DOMAIN body.macros
        named == {"manual_override"}
                 \cup (IF macro("netCarbs") THEN {"net_carbs"} ELSE {})
                 \cup (IF macro("protein") THEN {"protein"} ELSE {})
                 \cup (IF macro("fat") THEN {"fat"} ELSE {})
                 \cup (IF macro("calories") THEN {"calories"} ELSE {})
                 \cup (IF "notes" \in DOMAIN body THEN {"notes"} ELSE {})
                 \cup (IF "foods" \in DOMAIN body THEN {"foods"} ELSE {})
                 \cup (IF "mealType" \in DOMAIN body THEN {"meal_type"} ELSE {})
    IN
    [f \in named |->
        CASE f = "manual_override" -> TRUE
          [] f = "net_carbs" -> body.macros.netCarbs
          [] f = "protein" -> body.macros.protein
          [] f = "fat" -> body.macros.fat
          [] f = "calories" -> body.macros.calories
          [] f = "notes" -> body.notes
          [] f = "foods" -> body.foods
          [] f = "meal_type" -> body.mealType]

(* PUT /api/food/:mealId; mealId -1 stands for a path that is not a number *)
PutMeal(bodies) ==
    \E mealId \in {-1} \cup 1..(food_logs_id_seq + 1), body \in bodies :
        LET req == [mealId |-> mealId, body |-> body]
            done == UpdateFoodLog(food_logs, mealId, PutUpdates(body))
        IN
        /\ Delivered
        /\ UNCHANGED <<clients, users, minted, liveAcc, liveRef, now, ticks, samples, inflight,
                       origin, food_logs_id_seq>>
        /\ IF mealId = -1
           THEN /\ reply' = FoodReply("PUT /:mealId", req, 500, [success |-> FALSE])
                /\ UNCHANGED food_logs
           ELSE /\ food_logs' = done.rows
                /\ reply' = FoodReply("PUT /:mealId", req,
                                      IF done.updated THEN 200 ELSE 404,
                                      [success |-> done.updated])

(* DELETE /api/food/:mealId?userId= *)
DeleteMeal ==
    \E mealId \in {-1} \cup 1..(food_logs_id_seq + 1), userId \in {""} \cup Subjects :
        LET req == [mealId |-> mealId, userId |-> userId]
        IN
        /\ Delivered
        /\ UNCHANGED <<clients, users, minted, liveAcc, liveRef, now, ticks, samples, inflight,
                       origin, food_logs_id_seq>>
        /\ IF userId = ""
           THEN /\ reply' = FoodReply("DELETE /:mealId", req, 400, [success |-> FALSE])
                /\ UNCHANGED food_logs
           ELSE IF mealId = -1
           THEN /\ reply' = FoodReply("DELETE /:mealId", req, 500, [success |-> FALSE])
                /\ UNCHANGED food_logs
           ELSE /\ food_logs' = DeleteFoodLog(mealId, userId)
                /\ reply' = FoodReply("DELETE /:mealId", req,
                                      IF food_logs' # food_logs THEN 200 ELSE 404,
                                      [success |-> food_logs' # food_logs])

(* GET /api/food/summary/daily?userId=&date= *)
SummaryDaily ==
    \E userId \in {""} \cup Subjects,
       date \in {"", "2025-10-25", "2025-10-26", "someday"} :
        LET req == [userId |-> userId, date |-> date]
            summary == GetDailySummary(userId, IF date = "2025-10-26" THEN 0 ELSE -1)
        IN
        /\ Delivered
        /\ UNCHANGED <<clients, users, minted, liveAcc, liveRef, now, ticks, samples, inflight,
                       origin, food_logs, food_logs_id_seq>>
        /\ reply' = IF userId = "" \/ date = ""
                    THEN FoodReply("GET /summary/daily", req, 400, [success |-> FALSE])
                    ELSE IF date = "someday"
                    THEN FoodReply("GET /summary/daily", req, 500, [success |-> FALSE])
                    ELSE IF ~summary.found
                    THEN FoodReply("GET /summary/daily", req, 200,
                                   [found |-> FALSE, total_net_carbs |-> 0,
                                    total_protein |-> 0, total_fat |-> 0,
                                    total_calories |-> 0, meal_count |-> 0])
                    ELSE FoodReply("GET /summary/daily", req, 200, summary)

(* ---------------- the specifications ---------------- *)
StaticRequest ==
    [client_id |-> StaticClient, redirect_uri |-> GoodUri, scope |-> ReadWrite, state |-> "xyz"]

StaticCreds == <<StaticClient, StaticSecret>>

DynCreds == <<DynIds[1], DynSecrets[1]>>

(* the user agent follows the redirect of /authorize to the provider,      *)
(* which calls back with the state it was given                            *)
RedirectedStates ==
    IF reply.ep = "authorize" /\ reply.status = 302 THEN {reply.location.state} ELSE {}

AccessTokens == {Acc(n) : n \in Rows}

(* one caller at a time: no request is between two store steps *)
Idle == inflight = EmptyBag

(* Spec: the refresh tokens of one user, from the provider callback through *)
(* rotation and revocation, with concurrent requests and credentials of    *)
(* every shape.                                                            *)
Next ==
    \/ Deliver
    \/ CallbackStart({"gcode"}, {EncodeState(StaticRequest)}, {"u1"})
    \/ \E r \in Requests : CallbackMint(r)
    \/ TokenStart(CredentialInputs, GrantInputs \ {"authorization_code"}, {})
    \/ \E r \in Requests : TokenRotate(r)
    \/ RevokeStart(CredentialInputs, {0, Ref(1)})
    \/ \E r \in Requests : RevokeDo(r)

Spec == Init /\ [][Next]_vars

(* SpecExchange: two clients, from registration to the exchange of a code  *)
NextExchange ==
    \/ Deliver
    \/ Register({RegisterBody("array", <<EvilUri, OtherUri>>, <<>>)})
    \/ CallbackStart({"gcode"}, {EncodeState(StaticRequest)}, {"u1"})
    \/ \E r \in Requests : CallbackMint(r)
    \/ TokenStart({StaticCreds, DynCreds}, {"authorization_code"}, {})
    \/ \E r \in Requests : TokenLookup(r)
    \/ \E r \in Requests : TokenRevoke(r)
    \/ \E r \in Requests : TokenCreate(r)

SpecExchange == Init /\ [][NextExchange]_vars

(* SpecRoundTrip: a registered client and two users, from registration to  *)
(* the introspection of the exchanged access token, one request at a time. *)
NextRoundTrip ==
    \/ Deliver
    \/ Register({RegisterBody("array", <<EvilUri, OtherUri>>, <<>>)})
    \/ Authorize({AuthorizeQuery(DynIds[1], OtherUri, ReadWrite, "xyz", "code")})
    \/ Idle /\ CallbackStart({"gcode"}, RedirectedStates, Subjects)
    \/ \E r \in Requests : CallbackMint(r)
    \/ Idle /\ TokenStart({DynCreds}, {"authorization_code"}, {})
    \/ \E r \in Requests : TokenLookup(r)
    \/ \E r \in Requests : TokenRevoke(r)
    \/ \E r \in Requests : TokenCreate(r)
    \/ Introspect(AccessTokens)

SpecRoundTrip == Init /\ [][NextRoundTrip]_vars

(* SpecExpiry: the clock against the uses of a token, one request at a     *)
(* time; the clock may advance between two store steps of a request.       *)
NextExpiry ==
    \/ Deliver
    \/ Tick({CodeTTL + 1, AccessTTL + 1})
    \/ Idle /\ CallbackStart({"gcode"}, {EncodeState(StaticRequest)}, {"u1"})
    \/ \E r \in Requests : CallbackMint(r)
    \/ Idle /\ TokenStart({StaticCreds}, {"authorization_code"}, {})
    \/ \E r \in Requests : TokenLookup(r)
    \/ \E r \in Requests : TokenRevoke(r)
    \/ \E r \in Requests : TokenCreate(r)
    \/ Introspect(AccessTokens)

SpecExpiry == Init /\ [][NextExpiry]_vars

(* SpecRefresh: the refresh tokens of two users against the clock, one     *)
(* request at a time, never-issued tokens included.                        *)
NextRefresh ==
    \/ Deliver
    \/ Tick({AccessTTL + 1, RefreshTTL + 1})
    \/ Idle /\ CallbackStart({"gcode"}, {EncodeState(StaticRequest)}, Subjects)
    \/ \E r \in Requests : CallbackMint(r)
    \/ Idle /\ TokenStart({StaticCreds}, {"refresh_token"}, {Bogus})
    \/ \E r \in Requests : TokenRotate(r)

SpecRefresh == Init /\ [][NextRefresh]_vars

(* SpecRevoke: revocation of the tokens of one user, never-issued tokens   *)
(* included, with concurrent revoke requests, and introspection.           *)
NextRevoke ==
    \/ Deliver
    \/ Idle /\ CallbackStart({"gcode"}, {EncodeState(StaticRequest)}, {"u1"})
    \/ \E r \in Requests : CallbackMint(r)
    \/ RevokeStart({StaticCreds, <<StaticClient, "wrong">>}, {0, Bogus, Acc(1), Ref(1), Acc(2)})
    \/ \E r \in Requests : RevokeDo(r)
    \/ Introspect(AccessTokens)

SpecRevoke == Init /\ [][NextRevoke]_vars

(* SpecMalformed: requests with a field missing at /token, /revoke and      *)
(* /introspect, next to well-formed ones, one caller at a time.            *)
NextMalformed ==
    \/ Deliver
    \/ Idle /\ CallbackStart({"gcode"}, {EncodeState(StaticRequest)}, {"u1"})
    \/ \E r \in Requests : CallbackMint(r)
    \/ Idle /\ TokenStart(CredentialInputs, GrantInputs, {0})
    \/ \E r \in Requests : TokenLookup(r)
    \/ \E r \in Requests : TokenRevoke(r)
    \/ \E r \in Requests : TokenCreate(r)
    \/ \E r \in Requests : TokenRotate(r)
    \/ Idle /\ RevokeStart(CredentialInputs, {0, Acc(1)})
    \/ \E r \in Requests : RevokeDo(r)
    \/ Idle /\ Introspect({0, Acc(1)})

SpecMalformed == Init /\ [][NextMalformed]_vars

(* SpecConfusion: two clients, the pre-registered one and a self-registered *)
(* one, each with valid credentials, refreshing and revoking the tokens     *)
(* issued to the pre-registered one.                                        *)
NextConfusion ==
    \/ Deliver
    \/ Register({RegisterBody("array", <<OtherUri>>, ReadWrite)})
    \/ Idle /\ CallbackStart({"gcode"}, {EncodeState(StaticRequest)}, {"u1"})
    \/ \E r \in Requests : CallbackMint(r)
    \/ Idle /\ TokenStart({StaticCreds, DynCreds}, {"refresh_token"}, {})
    \/ \E r \in Requests : TokenRotate(r)
    \/ Idle /\ RevokeStart({StaticCreds, DynCreds}, {Acc(1), Ref(1)})
    \/ \E r \in Requests : RevokeDo(r)

SpecConfusion == Init /\ [][NextConfusion]_vars

(* SpecSamples: the health samples API, with and without the API secret.   *)
NextSamples ==
    \/ Deliver
    \/ PostSamples(SecretInputs, {<<>>} \cup {<<a>> : a \in {b \in SampleInputs : b.value = 110}})
    \/ GetSamples(SecretInputs)
    \/ GetLatest(SecretInputs)
    \/ GetStats(SecretInputs)

SpecSamples == Init /\ [][NextSamples]_vars

(* SpecStore: batches of up to two samples of every shape, stored for two  *)
(* users by an authenticated caller, and read back.                        *)
NextStore ==
    \/ Deliver
    \/ PostSamples({API_SECRET},
                   {<<>>} \cup {<<a>> : a \in SampleInputs}
                          \cup {<<a, b>> : a, b \in SampleInputs})
    \/ GetSamples({API_SECRET})

SpecStore == Init /\ [][NextStore]_vars

(* SpecFood: meals of two users logged with and without a photo, corrected *)
(* with bodies of every shape and deleted by either user.                  *)
NextFood ==
    \/ Deliver
    \/ PostLog({""} \cup Subjects, {"", "2025-10-26T12:00:00Z"}, {"", "base64"})
    \/ PutMeal({[confidence |-> 1], [notes |-> "less butter"],
                [macros |-> [netCarbs |-> 3]],
                [macros |-> [netCarbs |-> 3, protein |-> 30, fat |-> 25, calories |-> 350],
                 notes |-> "less butter"],
                [foods |-> <<"toast">>, mealType |-> "lunch"]})
    \/ DeleteMeal

SpecFood == Init /\ [][NextFood]_vars

(* SpecSummary: meals of two users at three instants around the day        *)
(* boundaries, corrected and deleted, and the daily summaries asked.       *)
NextSummary ==
    \/ Deliver
    \/ PostLog(Subjects, {"2025-10-26T03:00:00Z", "2025-10-26T12:00:00Z",
                          "2025-10-27T05:00:00Z"}, {""})
    \/ PutMeal({[macros |-> [netCarbs |-> 3, protein |-> 30, fat |-> 25, calories |-> 350]]})
    \/ DeleteMeal
    \/ SummaryDaily

SpecSummary == Init /\ [][NextSummary]_vars

(* SpecFederation: users arriving through the provider callback and        *)
(* through POST /auth/google, concurrently and repeatedly.                 *)
NextFederation ==
    \/ Deliver
    \/ CallbackStart({"gcode"}, {EncodeState(StaticRequest)}, Subjects)
    \/ \E r \in Requests : CallbackMint(r)
    \/ AuthGoogle({"", "idtoken"}, IdpOutcomes)
    \/ Introspect(AccessTokens)

SpecFederation == Init /\ [][NextFederation]_vars

(* SpecApiKey: two users obtained through POST /auth/google, refreshing     *)
(* their API keys, concurrently too, and presenting keys at GET /auth/me.   *)
NextApiKey ==
    \/ Deliver
    \/ AuthGoogle({"idtoken"}, Subjects)
    \/ ApiKeyRefreshStart
    \/ \E r \in Requests : ApiKeyRefreshDo(r)
    \/ Me

SpecApiKey == Init /\ [][NextApiKey]_vars

(* SpecStoreFailure: callbacks and token requests of one client, one       *)
(* caller at a time, with a provider that may not confirm the user and a   *)
(* store whose calls may throw.                                            *)
NextStoreFailure ==
    \/ Deliver
    \/ Idle /\ CallbackStart({"gcode"}, {EncodeState(StaticRequest)}, IdpOutcomes)
    \/ \E r \in Requests : CallbackMint(r)
    \/ Idle /\ TokenStart({StaticCreds}, {"authorization_code", "refresh_token"}, {Bogus})
    \/ \E r \in Requests : TokenLookup(r)
    \/ \E r \in Requests : TokenRevoke(r)
    \/ \E r \in Requests : TokenCreate(r)
    \/ \E r \in Requests : TokenRotate(r)
    \/ \E r \in Requests : TokenStoreThrows(r)

SpecStoreFailure == Init /\ [][NextStoreFailure]_vars

(* SpecAuthorize: registration, authorization requests and provider        *)
(* callbacks of every shape, forged state blobs included, one callback at  *)
(* a time.                                                                 *)
NextAuthorize ==
    \/ Deliver
    \/ Register(RegisterInputs)
    \/ Authorize(AuthorizeInputs)
    \/ Idle /\ CallbackStart({"", "gcode"}, StateInputs, IdpOutcomes \ {"u2"})
    \/ \E r \in Requests : CallbackMint(r)
    \/ Introspect({0, Bogus} \cup AccessTokens)

SpecAuthorize == Init /\ [][NextAuthorize]_vars

(* ---------------- properties ---------------- *)

(* C1: when several token requests with grant_type=refresh_token and valid *)
(* client credentials present the same valid refresh token concurrently,   *)
(* exactly one of them receives a new access/refresh pair and every other  *)
(* one is answered 401: no refresh token is ever rotated twice, and every  *)
(* answer to a presentation of a refresh token that was neither revoked    *)
(* nor expired comes with exactly one rotation of that token, the answer   *)
(* being either that rotation's pair or 401 "Invalid refresh token".       *)
C1_RotationHasOneWinner ==
    /\ \A n \in Rows : Cardinality(Rotations(n)) <= 1
    /\ \A n \in Rows :
        (/\ reply.ep = "token" /\ reply.grant_type = "refresh_token"
         /\ reply.tok = Ref(n) /\ reply.status \in {200, 401}
         /\ VerifyClientCredentials(reply.client_id, reply.client_secret)
         /\ ~origin[n].refRevoked /\ ~RefreshExpired(minted[n]))
        => /\ Cardinality(Rotations(n)) = 1
           /\ n \notin liveRef
           /\ reply.status = 200 =>
                  /\ reply.issued = 1
                  /\ \E m \in Rotations(n) : /\ reply.access_token = Acc(m)
                                             /\ reply.refresh_token = Ref(m)
                                             /\ m \in liveAcc /\ m \in liveRef
           /\ reply.status = 401 =>
                  reply.issued = 0 /\ reply.error = "Invalid refresh token"

(* a request that was waiting to rotate a refresh token while another      *)
(* request rotated it is answered 401                                      *)
C1_Witness ==
    /\ reply.ep = "token" /\ reply.grant_type = "refresh_token"
    /\ reply.status = 401 /\ reply.raced
    /\ \E n \in Rows : /\ reply.tok = Ref(n)
                       /\ Cardinality(Rotations(n)) = 1
                       /\ ~origin[n].refRevoked

(* C2: after one token request with grant_type=authorization_code has      *)
(* succeeded for a code, every later token request presenting that code,   *)
(* by any client, gets no further than the lookup of the code, is rejected *)
(* (with "Invalid authorization code" when its credentials verify) and     *)
(* issues no token.                                                        *)
C2_CodeExchangedOnce ==
    /\ \A r \in Requests : (r.ep = "token" /\ r.after) => r.pc = "lookup"
    /\ (reply.ep = "token" /\ reply.grant_type = "authorization_code" /\ reply.after)
       => /\ reply.status \in 400..499
          /\ reply.issued = 0
          /\ VerifyClientCredentials(reply.client_id, reply.client_secret)
             => reply.status = 401 /\ reply.error = "Invalid authorization code"

(* the client that exchanged a code presents it again and is refused *)
C2_Witness ==
    /\ reply.ep = "token" /\ reply.grant_type = "authorization_code"
    /\ reply.after /\ reply.status = 401 /\ reply.error = "Invalid authorization code"
    /\ \E m \in Rows : /\ reply.tok = Acc(m)
                       /\ minted[m].client_id = reply.client_id
                       /\ Cardinality(Exchanges(m)) = 1

(* C3: when several token requests with grant_type=authorization_code and  *)
(* valid credentials of the owning client present the same unexchanged     *)
(* code concurrently, at most one of them is answered with an              *)
(* access/refresh pair: no code is the parent of two exchanged pairs.      *)
C3_AtMostOnePairPerCode ==
    \A m \in Rows : Cardinality(Exchanges(m)) <= 1

(* C4: an authorize request whose redirect_uri is not among the registered *)
(* redirect_uris of the client named by client_id is answered 4xx without  *)
(* any redirect.                                                           *)
C4_UnregisteredRedirectRejected ==
    (/\ reply.ep = "authorize"
     /\ ~\E c \in clients : /\ c.client_id = reply.req.client_id
                            /\ \E i \in 1..Len(c.redirect_uris) :
                                   c.redirect_uris[i] = reply.req.redirect_uri)
    => reply.status \in 400..499 /\ reply.location = NoLocation

(* a registered client asks for a redirect_uri it never registered *)
C4_Witness ==
    /\ reply.ep = "authorize"
    /\ HasClient(reply.req.client_id)
    /\ reply.req.redirect_uri = EvilUri /\ reply.req.response_type = "code"
    /\ reply.status = 400 /\ reply.body = "Invalid redirect_uri"

(* C5: an authorize request with an existing client, a registered          *)
(* redirect_uri, response_type=code and only allowed scopes is answered    *)
(* with a redirect to the Identity Provider's authorization URL carrying   *)
(* the fixed provider callback and the encoded request; no answer of       *)
(* /authorize redirects to a client, and a redirect to a client carries a  *)
(* code minted by the provider callback.                                   *)
C5_ValidAuthorizeRedirectsToProvider ==
    /\ (/\ reply.ep = "authorize"
        /\ reply.req.response_type = "code"
        /\ \E c \in clients :
              /\ c.client_id = reply.req.client_id
              /\ \E i \in 1..Len(c.redirect_uris) :
                     c.redirect_uris[i] = reply.req.redirect_uri
              /\ \A j \in 1..Len(Split(reply.req.scope)) :
                     \E k \in 1..Len(c.allowed_scopes) :
                         c.allowed_scopes[k] = Split(reply.req.scope)[j])
       => /\ reply.status = 302
          /\ reply.location.kind = "idp"
          /\ reply.location.url = GoogleAuthEndpoint
          /\ reply.location.redirect_uri = GOOGLE_OAUTH_REDIRECT_URI
          /\ reply.location.redirect_uri # reply.req.redirect_uri
          /\ reply.location.state.kind = "json"
          /\ reply.location.state.json =
                 [client_id |-> reply.req.client_id, redirect_uri |-> reply.req.redirect_uri,
                  scope |-> reply.req.scope, state |-> reply.req.state]
    /\ reply.ep = "authorize" => reply.location.kind # "client"
    /\ (reply.ep \in {"authorize", "callback"} /\ reply.location.kind = "client")
       => /\ reply.ep = "callback"
          /\ \E n \in Rows : origin[n].kind = "callback" /\ reply.location.code = Acc(n)

(* a dynamically registered client is sent to the Identity Provider *)
C5_Witness ==
    /\ reply.ep = "authorize" /\ reply.status = 302
    /\ reply.req.client_id = DynIds[1]
    /\ reply.location.kind = "idp"
    /\ reply.location.redirect_uri = GOOGLE_OAUTH_REDIRECT_URI

(* C6: a token request with grant_type=authorization_code whose code was   *)
(* issued to another client than the authenticated requester is rejected   *)
(* and issues no token: it is answered 401, it never gets past the lookup  *)
(* of the code, and every exchanged pair belongs to the client of its      *)
(* code.                                                                   *)
C6_CodeBoundToClient ==
    /\ \A n \in Rows :
           origin[n].kind = "exchange"
           => minted[n].client_id = minted[origin[n].parent].client_id
    /\ \A r \in Requests :
           (r.ep = "token" /\ r.pc \in {"revoke", "create"})
           => r.tokenInfo.client_id = r.client_id
    /\ \A m \in Rows :
           (/\ reply.ep = "token" /\ reply.grant_type = "authorization_code"
            /\ reply.tok = Acc(m)
            /\ VerifyClientCredentials(reply.client_id, reply.client_secret)
            /\ minted[m].client_id # reply.client_id)
           => reply.status = 401 /\ reply.issued = 0

(* a registered client presents, with its own valid credentials, a live    *)
(* code of another client                                                  *)
C6_Witness ==
    /\ reply.ep = "token" /\ reply.grant_type = "authorization_code"
    /\ reply.status = 401
    /\ VerifyClientCredentials(reply.client_id, reply.client_secret)
    /\ \E m \in liveAcc : /\ reply.tok = Acc(m)
                          /\ minted[m].client_id # reply.client_id
                          /\ ~Expired(minted[m])

(* C7: neither /token nor /revoke creates or deletes a token unless the    *)
(* submitted client_id and client_secret verify against the Client         *)
(* Registry: only requests with verified credentials reach a store step,   *)
(* and a request with an unknown client or a wrong secret is answered 401  *)
(* by a step that leaves the Token Store as it was.                        *)
C7_NoTokenChangeWithoutCredentials ==
    /\ [](\A r \in Requests :
              r.ep \in {"token", "revoke"}
              => VerifyClientCredentials(r.client_id, r.client_secret))
    /\ [][(/\ reply'.ep \in {"token", "revoke"}
           /\ reply'.client_id # "" /\ reply'.client_secret # ""
           /\ reply'.ep = "revoke" => reply'.tok # 0
           /\ ~VerifyClientCredentials(reply'.client_id, reply'.client_secret))
          => /\ reply'.status = 401
             /\ minted' = minted /\ liveAcc' = liveAcc /\ liveRef' = liveRef]_vars

(* a caller with a wrong secret or an unknown client id asks to revoke a   *)
(* refresh token that is in the store, and it stays there                  *)
C7_Witness ==
    /\ reply.ep = "revoke" /\ reply.status = 401
    /\ ~VerifyClientCredentials(reply.client_id, reply.client_secret)
    /\ \E n \in liveRef : reply.tok = Ref(n)

C9_RoundTrip ==
    \A n \in Rows :
        (/\ reply.ep = "introspect" /\ reply.token = Acc(n)
         /\ origin[n].kind = "exchange"
         /\ origin[CodeOf(n)].via
         /\ minted[n].client_id # StaticClient /\ HasClient(minted[n].client_id)
         /\ n \in liveAcc /\ ~(now >= minted[n].expires_at))
        => /\ reply.status = 200 /\ reply.active
           /\ HasUser(origin[CodeOf(n)].sub)
           /\ reply.user_id = UserOfSub(origin[CodeOf(n)].sub)
           /\ reply.scopes = Split(origin[CodeOf(n)].scope)
           /\ reply.exp = minted[n].issued_at + 3600

(* the token of the second of two users, obtained by the registered client *)
C9_Witness ==
    /\ reply.ep = "introspect" /\ reply.status = 200 /\ reply.active
    /\ Len(users) = 2
    /\ reply.scopes = <<Word("read:food"), Word("write:food")>>
    /\ \E n \in Rows : /\ reply.token = Acc(n)
                       /\ origin[n].kind = "exchange"
                       /\ origin[origin[n].parent].kind = "callback"
                       /\ origin[origin[n].parent].via
                       /\ origin[origin[n].parent].sub = "u2"
                       /\ users[reply.user_id].google_id = "u2"
                       /\ minted[n].client_id = DynIds[1]

(* C10: a successful authorization_code exchange returns token_type        *)
(* Bearer, expires_in 3600, a refresh token, and the scope string of the   *)
(* authorize request that produced the code, the access token being owned  *)
(* by the user the provider confirmed.                                     *)
C10_ExchangeResponse ==
    (reply.ep = "token" /\ reply.grant_type = "authorization_code" /\ reply.status = 200)
    => \E n \in Rows :
           /\ origin[n].kind = "exchange"
           /\ reply.access_token = Acc(n) /\ n \in liveAcc
           /\ reply.token_type = "Bearer"
           /\ reply.expires_in = 3600
           /\ reply.refresh_token = Ref(n) /\ n \in liveRef
           /\ reply.scope = origin[CodeOf(n)].scope
           /\ HasUser(origin[CodeOf(n)].sub)
           /\ minted[n].user_id = UserOfSub(origin[CodeOf(n)].sub)

(* "read:food write:food" in, "read:food write:food" out *)
C10_Witness ==
    /\ reply.ep = "token" /\ reply.grant_type = "authorization_code"
    /\ reply.status = 200
    /\ reply.scope = <<"read:food", SP, "write:food">>
    /\ \E n \in Rows : /\ reply.access_token = Acc(n)
                       /\ origin[origin[n].parent].kind = "callback"
                       /\ origin[origin[n].parent].via
                       /\ origin[origin[n].parent].sub = "u2"

(* C11: once a refresh token has been rotated, every later token request   *)
(* with grant_type=refresh_token presenting it is answered 401 and issues  *)
(* nothing; so is a request presenting a refresh token that was never      *)
(* issued or one past its expiry.  No refresh token is rotated twice, and  *)
(* none is rotated at or after its expiry.                                 *)
C11_StaleRefreshRejected ==
    /\ (/\ reply.ep = "token" /\ reply.grant_type = "refresh_token"
        /\ reply.tok # 0
        /\ VerifyClientCredentials(reply.client_id, reply.client_secret)
        /\ \/ reply.after
           \/ ~\E n \in Rows : Ref(n) = reply.tok
           \/ \E n \in Rows : /\ Ref(n) = reply.tok
                              /\ now >= minted[n].issued_at + RefreshTTL)
       => /\ reply.status = 401 /\ reply.error = "Invalid refresh token"
          /\ reply.issued = 0
    /\ \A m \in Rows :
           origin[m].kind = "rotation"
           => /\ Cardinality(Rotations(origin[m].parent)) = 1
              /\ minted[m].issued_at < minted[origin[m].parent].issued_at + RefreshTTL

(* a refresh token that was rotated is presented again *)
C11_Witness ==
    /\ reply.ep = "token" /\ reply.grant_type = "refresh_token"
    /\ reply.after /\ reply.status = 401
    /\ \E n \in Rows : Ref(n) = reply.tok /\ Cardinality(Rotations(n)) = 1

(* C12: the pair produced by a refresh-token rotation is bound to the same *)
(* user id, the same client id and the same scopes as the row whose        *)
(* refresh token was rotated.                                              *)
C12_RotationKeepsBinding ==
    \A m \in Rows :
        origin[m].kind = "rotation"
        => /\ minted[m].user_id = minted[origin[m].parent].user_id
           /\ minted[m].client_id = minted[origin[m].parent].client_id
           /\ minted[m].scopes = minted[origin[m].parent].scopes

(* the refresh token of the second user's row is rotated *)
C12_Witness ==
    /\ reply.ep = "token" /\ reply.grant_type = "refresh_token" /\ reply.status = 200
    /\ \E m \in Rows : /\ origin[m].kind = "rotation"
                       /\ reply.access_token = Acc(m)
                       /\ minted[m].user_id = 2
                       /\ minted[m].scopes = <<Word("read:food"), Word("write:food")>>

(* C13: every token in the Token Store references an existing user and an  *)
(* existing registered client, and its scopes are among that client's      *)
(* allowed scopes, whatever state value the provider callback receives.    *)
C13_TokensReferenceUserClientScopes ==
    \A n \in liveAcc \cup liveRef :
        /\ minted[n].user_id \in 1..Len(users)
        /\ \E c \in clients :
              /\ c.client_id = minted[n].client_id
              /\ \A i \in 1..Len(minted[n].scopes) :
                     \E k \in 1..Len(c.allowed_scopes) :
                         c.allowed_scopes[k] = minted[n].scopes[i]

(* C14: revoke with valid client credentials answers success whether the   *)
(* named token is in the store, never existed or was already revoked; the  *)
(* step deletes the named token and nothing else, so revoking an absent    *)
(* token changes no store and a second revoke of a token changes nothing   *)
(* the first did not.                                                      *)
C14_RevokeIdempotent ==
    [][\A r \in Requests :
          (r.ep = "revoke" /\ r.pc = "revoking" /\ inflight' = Dequeue(r))
          => /\ reply'.ep = "revoke" /\ reply'.tok = r.tok
             /\ reply'.status = 200 /\ reply'.success
             /\ liveAcc' = {n \in liveAcc : Acc(n) # r.tok}
             /\ liveRef' = {n \in liveRef : Ref(n) # r.tok}
             /\ minted' = minted /\ users' = users /\ clients' = clients
             /\ ((r.tok \notin {Acc(n) : n \in liveAcc} \cup {Ref(n) : n \in liveRef})
                 => liveAcc' = liveAcc /\ liveRef' = liveRef)]_vars

(* a refresh token that /revoke already deleted is revoked again *)
C14_Witness ==
    /\ reply.ep = "revoke" /\ reply.status = 200 /\ reply.success
    /\ \E n \in Rows : /\ reply.tok = Ref(n)
                       /\ origin[n].refRevoked
                       /\ \E r \in Requests : r.ep = "revoke" /\ r.tok = reply.tok

(* C15: after a successful revoke of an access token, the token is not in  *)
(* the store again and every introspect of it answers active: false.       *)
C15_RevokedStaysInactive ==
    \A n \in Rows :
        origin[n].accRevoked
        => /\ n \notin liveAcc
           /\ (reply.ep = "introspect" /\ reply.token = Acc(n))
              => reply.status = 200 /\ ~reply.active

(* an access token that was active is introspected after its revocation *)
C15_Witness ==
    /\ reply.ep = "introspect" /\ reply.status = 200 /\ ~reply.active
    /\ \E n \in Rows : /\ reply.token = Acc(n)
                       /\ origin[n].accRevoked
                       /\ ~(now >= minted[n].expires_at)

(* C16: a successful provider callback redirects the browser to the        *)
(* redirect_uri of the request encoded in the state, with the new          *)
(* authorization code and the client's state value as parameters, and the  *)
(* code is stored with a TTL of 300 seconds, bound to the client_id and    *)
(* the scope of that request and to the user of the provider's subject.    *)
C16_CallbackRedirectsWithCode ==
    (reply.ep = "callback" /\ reply.status = 302)
    => /\ reply.state.kind = "json"
       /\ reply.location.kind = "client"
       /\ reply.location.url = reply.state.json.redirect_uri
       /\ reply.location.state = reply.state.json.state
       /\ \E n \in Rows :
             /\ origin[n].kind = "callback"
             /\ reply.location.code = Acc(n)
             /\ n \in liveAcc
             /\ minted[n].expires_at = minted[n].issued_at + 300
             /\ minted[n].client_id = reply.state.json.client_id
             /\ minted[n].scopes = Split(reply.state.json.scope)
             /\ origin[n].sub \in Subjects
             /\ minted[n].user_id \in 1..Len(users)
             /\ users[minted[n].user_id].google_id = origin[n].sub

(* the second user comes back from the provider to the client that sent    *)
(* them through /authorize                                                 *)
C16_Witness ==
    /\ reply.ep = "callback" /\ reply.status = 302
    /\ reply.location.url = OtherUri /\ reply.location.state = "xyz"
    /\ \E n \in Rows : /\ reply.location.code = Acc(n)
                       /\ origin[n].via /\ origin[n].sub = "u2"
                       /\ minted[n].user_id = 2
                       /\ minted[n].client_id = DynIds[1]

(* C17: a provider callback that fails (missing code or state, undecodable *)
(* state, failed code exchange, unverifiable assertion, unusable           *)
(* redirect_uri) is answered with an error and no redirect; a callback     *)
(* that fails before the user is resolved changes no store, and only       *)
(* subjects the provider confirmed become users or owners of codes.        *)
C17_CallbackFailsClosed ==
    /\ [](/\ \A i \in 1..Len(users) : users[i].google_id \in Subjects
          /\ \A n \in Rows : origin[n].kind = "callback" => origin[n].sub \in Subjects
          /\ (reply.ep = "callback" /\ reply.status # 302)
             => reply.status \in {400, 401, 500} /\ reply.location = NoLocation)
    /\ [][(reply'.ep = "callback" /\ reply # reply' /\ inflight' = inflight)
          => /\ reply'.status \in {400, 401, 500}
             /\ users' = users /\ minted' = minted
             /\ liveAcc' = liveAcc /\ liveRef' = liveRef /\ clients' = clients]_vars

(* the provider does not confirm the assertion of a callback whose state   *)
(* decodes: an error page, no user, no code                                *)
C17_Witness ==
    /\ reply.ep = "callback" /\ reply.status \in {401, 500}
    /\ reply.code = "gcode" /\ reply.state.kind = "json"
    /\ users = <<>> /\ minted = <<>>

(* C18: an authorize request naming a scope that is not among the client's *)
(* allowed scopes is answered 4xx without a redirect, even when its other  *)
(* scopes are allowed.                                                     *)
C18_DisallowedScopeRejected ==
    (/\ reply.ep = "authorize"
     /\ \A c \in clients :
            c.client_id = reply.req.client_id
            => \E j \in 1..Len(Split(reply.req.scope)) :
                   \A k \in 1..Len(c.allowed_scopes) :
                       c.allowed_scopes[k] # Split(reply.req.scope)[j])
    => reply.status \in 400..499 /\ reply.location = NoLocation

(* an allowed scope and a disallowed one, everything else valid *)
C18_Witness ==
    /\ reply.ep = "authorize"
    /\ reply.req = AuthorizeQuery(StaticClient, GoodUri, ReadAdmin, "xyz", "code")
    /\ reply.status = 400 /\ reply.body = "Invalid scopes"

(* C19: an authorize request with an unknown client_id, without client_id, *)
(* redirect_uri or scope, or with a response_type other than "code" is     *)
(* answered 4xx and never with a redirect.                                 *)
C19_InvalidAuthorizeIsTerminal ==
    (/\ reply.ep = "authorize"
     /\ \/ ~\E c \in clients : c.client_id = reply.req.client_id
        \/ reply.req.client_id = "" \/ reply.req.redirect_uri = ""
        \/ reply.req.scope = <<>>
        \/ reply.req.response_type # "code")
    => reply.status \in 400..499 /\ reply.location = NoLocation

(* a client id that was never registered, everything else well-formed *)
C19_Witness ==
    /\ reply.ep = "authorize" /\ reply.status = 400
    /\ reply.req.client_id = DynIds[1] /\ ~HasClient(DynIds[1])
    /\ reply.req.response_type = "code"
    /\ reply.body = "Invalid client_id"

(* C20: a registration whose scope list mixes allowed and disallowed       *)
(* scopes succeeds and stores exactly the requested scopes that are in     *)
(* {read:food, write:food, profile}; no client ever has another scope.     *)
C20_RegisterFiltersScopes ==
    /\ \A c \in clients :
           \A k \in 1..Len(c.allowed_scopes) :
               c.allowed_scopes[k] \in {<<"read:food">>, <<"write:food">>, <<"profile">>}
    /\ (/\ reply.ep = "register"
        /\ reply.req.redirect_uris.kind = "array"
        /\ reply.req.redirect_uris.items # <<>>
        /\ \A i \in 1..Len(reply.req.redirect_uris.items) :
               reply.req.redirect_uris.items[i] \in {GoodUri, OtherUri, EvilUri})
       => /\ reply.status = 201
          /\ \E c \in clients :
                /\ c.client_id = reply.client_id
                /\ c.client_secret = reply.client_secret
                /\ reply.req.scope # <<>>
                   => {c.allowed_scopes[k] : k \in 1..Len(c.allowed_scopes)}
                      = {Split(reply.req.scope)[j] : j \in 1..Len(Split(reply.req.scope))}
                        \cap {<<"read:food">>, <<"write:food">>, <<"profile">>}

(* "read:food admin" is registered as read:food alone *)
C20_Witness ==
    /\ reply.ep = "register" /\ reply.status = 201
    /\ reply.req.scope = <<"read:food", SP, "admin">>
    /\ \E c \in clients : /\ c.client_id = reply.client_id
                          /\ c.allowed_scopes = <<<<"read:food">>>>

(* C21: a registration whose redirect_uris is missing, is not an array, is *)
(* empty, or holds any element that is not an absolute http(s) URL is      *)
(* answered 400 and adds no client, even when its other URIs are good.     *)
C21_BadRedirectUrisRejected ==
    [][(/\ reply'.ep = "register" /\ reply' # reply
        /\ \/ reply'.req.redirect_uris.kind # "array"
           \/ reply'.req.redirect_uris.items = <<>>
           \/ \E i \in 1..Len(reply'.req.redirect_uris.items) :
                  reply'.req.redirect_uris.items[i] \notin {GoodUri, OtherUri, EvilUri})
       => reply'.status = 400 /\ clients' = clients]_vars

(* a good URI followed by one that does not parse *)
C21_Witness ==
    /\ reply.ep = "register" /\ reply.status = 400
    /\ reply.req.redirect_uris.kind = "array"
    /\ reply.req.redirect_uris.items = <<GoodUri, BadUri>>
    /\ DynCount = 0

(* C22: every token request whose grant_type is neither authorization_code *)
(* nor refresh_token is answered 400, and it creates or deletes no token.  *)
(* As stated this fails: the credentials are checked before the grant.     *)
C22_UnsupportedGrantIs400 ==
    (reply.ep = "token" /\ reply.grant_type \notin {"authorization_code", "refresh_token"})
    => reply.status = 400

(* C22, amended: a token request with another grant_type is answered 401   *)
(* when it carries credentials that are not those of a registered client,  *)
(* and 400 otherwise ("Unsupported grant_type" once the client is          *)
(* authenticated); it never succeeds and creates or deletes no token.      *)
C22_UnsupportedGrantRejected ==
    [][(/\ reply'.ep = "token" /\ reply' # reply
        /\ reply'.grant_type \notin {"authorization_code", "refresh_token"})
       => /\ IF reply'.client_id = "" \/ reply'.client_secret = ""
             THEN reply'.status = 400
             ELSE IF \E c \in clients : /\ c.client_id = reply'.client_id
                                        /\ c.client_secret = reply'.client_secret
             THEN reply'.status = 400 /\ reply'.error = "Unsupported grant_type"
             ELSE reply'.status = 401
          /\ reply'.issued = 0
          /\ minted' = minted /\ liveAcc' = liveAcc /\ liveRef' = liveRef]_vars

(* an authenticated client asks for a password grant while tokens exist *)
C22_Witness ==
    /\ reply.ep = "token" /\ reply.grant_type = "password"
    /\ reply.client_id = StaticClient /\ reply.client_secret = StaticSecret
    /\ reply.status = 400 /\ reply.error = "Unsupported grant_type"
    /\ liveAcc # {}

(* C23: a request with a required field missing (client_id or              *)
(* client_secret at /token and /revoke, code or refresh_token for its      *)
(* grant, token at /revoke and /introspect) is answered 400 and no store   *)
(* has been called.  As stated this fails: code and refresh_token are      *)
(* looked at only after verifyClientCredentials.                           *)
C23_MalformedNeverReachesStore ==
    /\ (/\ reply.ep = "token"
        /\ \/ reply.client_id = "" \/ reply.client_secret = ""
           \/ reply.grant_type \in {"authorization_code", "refresh_token"} /\ reply.tok = 0)
       => reply.status = 400 /\ ~reply.verified
    /\ (/\ reply.ep = "revoke"
        /\ (reply.tok = 0 \/ reply.client_id = "" \/ reply.client_secret = ""))
       => reply.status = 400 /\ ~reply.verified
    /\ (reply.ep = "introspect" /\ reply.token = 0)
       => reply.status = 400 /\ reply.calls = {}

(* C23, amended: missing credentials at /token and /revoke and a missing   *)
(* token at /revoke and /introspect are answered 400 before any store is   *)
(* called; a missing code or refresh_token is found after the Client       *)
(* Registry was read, and is answered 400 for a registered client and 401  *)
(* otherwise; in every case the request reaches no Token Store or User     *)
(* Directory step and changes nothing.                                     *)
C23_MalformedRejectedEarly ==
    [][(reply' # reply /\ reply'.ep \in {"token", "revoke", "introspect"})
       => /\ (/\ reply'.ep = "token"
              /\ (reply'.client_id = "" \/ reply'.client_secret = ""))
             => reply'.status = 400 /\ ~reply'.verified /\ inflight' = inflight
          /\ (/\ reply'.ep = "token"
              /\ reply'.client_id # "" /\ reply'.client_secret # ""
              /\ reply'.grant_type \in {"authorization_code", "refresh_token"}
              /\ reply'.tok = 0)
             => /\ reply'.verified /\ inflight' = inflight
                /\ reply'.status =
                       IF \E c \in clients : /\ c.client_id = reply'.client_id
                                             /\ c.client_secret = reply'.client_secret
                       THEN 400 ELSE 401
          /\ (/\ reply'.ep = "revoke"
              /\ (reply'.tok = 0 \/ reply'.client_id = "" \/ reply'.client_secret = ""))
             => reply'.status = 400 /\ ~reply'.verified /\ inflight' = inflight
          /\ (reply'.ep = "introspect" /\ reply'.token = 0)
             => reply'.status = 400 /\ reply'.calls = {}
          /\ (reply'.status = 400)
             => /\ clients' = clients /\ users' = users /\ minted' = minted
                /\ liveAcc' = liveAcc /\ liveRef' = liveRef]_vars

(* a registered client forgets the code: 400, after the registry was read *)
C23_Witness ==
    /\ reply.ep = "token" /\ reply.grant_type = "authorization_code"
    /\ reply.tok = 0 /\ reply.client_id = StaticClient
    /\ reply.client_secret = StaticSecret
    /\ reply.status = 400 /\ reply.error = "code is required"
    /\ reply.verified /\ liveAcc # {}

(* C24: when a store call fails during a token request the answer is 500,  *)
(* no token is returned, and the Token Store is as it was before the       *)
(* request: no authorization code is consumed unless a pair was issued     *)
(* from it or its exchange is still under way.                             *)
C24_StoreFailureLeavesNoPartialState ==
    /\ (reply.ep = "token" /\ reply.threw # "")
       => reply.status = 500 /\ reply.issued = 0
    /\ \A n \in Rows :
           (origin[n].kind = "callback" /\ n \notin liveAcc)
           => \/ Exchanges(n) # {}
              \/ \E r \in Requests : r.ep = "token" /\ r.tok = Acc(n)
                                     /\ r.pc \in {"revoke", "create"}

(* C25: resolving a user by federated subject id is an idempotent upsert:  *)
(* however many federations name a subject, through the callback or        *)
(* through POST /auth/google, one after the other or interleaved, there is *)
(* one user record for it, every federation is given that user's id, and   *)
(* two subjects never share a user.                                        *)
C25_FederationIsIdempotentUpsert ==
    /\ \A i, j \in 1..Len(users) : users[i].google_id = users[j].google_id => i = j
    /\ \A i \in 1..Len(users) : users[i].id = i
    /\ (reply.ep = "google" /\ reply.status = 200)
       => /\ reply.userId \in 1..Len(users)
          /\ users[reply.userId].google_id = reply.sub
    /\ \A r \in Requests :
           (r.ep = "callback" /\ r.pc = "mint")
           => /\ r.user_id \in 1..Len(users)
              /\ users[r.user_id].google_id = r.sub
    /\ \A n \in Rows :
           origin[n].kind = "callback"
           => /\ minted[n].user_id \in 1..Len(users)
              /\ users[minted[n].user_id].google_id = origin[n].sub

(* the first subject came through the callback twice and then through      *)
(* /auth/google, after the second subject: still two users, same id        *)
C25_Witness ==
    /\ Len(users) = 2
    /\ reply.ep = "google" /\ reply.status = 200
    /\ reply.sub = "u1" /\ reply.userId = 1
    /\ \E n, m \in Rows : /\ n # m
                          /\ origin[n].sub = "u1" /\ origin[m].sub = "u1"
                          /\ minted[n].user_id = 1 /\ minted[m].user_id = 1
    /\ \E r \in Requests : r.ep = "callback" /\ r.sub = "u2" /\ r.user_id = 2

(* C26: a request to POST /api/samples, GET /api/samples,                  *)
(* /api/samples/latest or /api/samples/stats without the X-API-Secret      *)
(* header, or with a value other than the configured secret, is answered   *)
(* 401 and calls no database method.                                       *)
C26_SamplesNeedApiSecret ==
    [][(reply'.ep = "samples" /\ reply' # reply /\ reply'.secret # "api-secret")
       => reply'.status = 401 /\ reply'.calls = {} /\ samples' = samples]_vars

(* a wrong secret on a write, against a database that holds samples *)
C26_Witness ==
    /\ reply.ep = "samples" /\ reply.route = "POST /api/samples"
    /\ reply.secret = "invalid-secret" /\ reply.userId = "u1"
    /\ reply.status = 401 /\ samples # {}

(* C27: a refresh_token grant succeeds only when the presented refresh     *)
(* token was issued to the client that authenticated the request.          *)
C27_RefreshBoundToClient ==
    (reply.ep = "token" /\ reply.grant_type = "refresh_token" /\ reply.status = 200)
    => \A m \in Rows :
           minted[m].refresh_token = reply.tok => minted[m].client_id = reply.client_id

(* C28: a revoke request authenticated as one client leaves every token    *)
(* issued to another client in the Token Store.                            *)
C28_RevokeOnlyOwnTokens ==
    [][\A r \in Requests :
          (r.ep = "revoke" /\ r.pc = "revoking" /\ inflight' = Dequeue(r))
          => \A n \in Rows :
                 minted[n].client_id # r.client_id
                 => /\ (n \in liveAcc') = (n \in liveAcc)
                    /\ (n \in liveRef') = (n \in liveRef)]_vars

(* C29: an authorization code is never accepted as a bearer credential:    *)
(* introspection of an issued code that has not been exchanged answers     *)
(* active:false, and no refresh token that came with a code is ever        *)
(* rotated.                                                                *)
C29_CodeIsNotBearerToken ==
    /\ (/\ reply.ep = "introspect"
        /\ \E n \in Rows : /\ reply.token = Acc(n)
                           /\ origin[n].kind = "callback"
                           /\ Exchanges(n) = {})
       => ~reply.active
    /\ \A n \in Rows :
           origin[n].kind = "rotation" => origin[origin[n].parent].kind # "callback"

(* C30: every provider callback that ends in a redirect, whatever state it *)
(* carries, redirects to a redirect_uri registered for the client the      *)
(* issued code is bound to.                                                *)
C30_CallbackRedirectIsRegistered ==
    (reply.ep = "callback" /\ reply.status = 302)
    => \E n \in Rows :
           /\ reply.location.code = Acc(n)
           /\ \E c \in clients :
                  /\ c.client_id = minted[n].client_id
                  /\ \E k \in 1..Len(c.redirect_uris) :
                         c.redirect_uris[k] = reply.location.url

(* C31: a refused authorization_code exchange leaves the Token Store as it *)
(* was: when a client other than the owner presents a valid code, the code *)
(* is not consumed, and right after the refusal it is still in the store,  *)
(* unexpired, for its owner to exchange.                                   *)
C31_RefusedExchangeKeepsCode ==
    [][(/\ reply'.ep = "token" /\ reply' # reply
        /\ reply'.grant_type = "authorization_code" /\ reply'.status = 401)
       => /\ minted' = minted /\ liveAcc' = liveAcc /\ liveRef' = liveRef
          /\ \A n \in liveAcc :
                 (/\ reply'.tok = Acc(n) /\ ~Expired(minted[n])
                  /\ minted[n].client_id # reply'.client_id)
                 => /\ n \in liveAcc' /\ now' < minted'[n].expires_at
                    /\ minted'[n].access_token = reply'.tok
                    /\ minted'[n].client_id = minted[n].client_id]_vars

(* the self-registered client is refused the unexchanged code of the       *)
(* pre-registered one while the owner's own request for it is waiting      *)
C31_Witness ==
    /\ reply.ep = "token" /\ reply.grant_type = "authorization_code"
    /\ reply.status = 401 /\ reply.client_id = DynIds[1]
    /\ \E n \in liveAcc : /\ reply.tok = Acc(n)
                          /\ origin[n].kind = "callback"
                          /\ minted[n].client_id = StaticClient
                          /\ Exchanges(n) = {}
                          /\ \E r \in Requests : /\ r.ep = "token" /\ r.pc = "lookup"
                                                 /\ r.tok = Acc(n)
                                                 /\ r.client_id = StaticClient

(* C32: every token in the Token Store is owned by a user whose subject id *)
(* the Identity Provider asserted, in an assertion that verified, before   *)
(* the token was issued: every row was inserted by the provider callback   *)
(* for a confirmed subject, by the exchange of such a code, or by the      *)
(* rotation of a refresh token that descends from one.                     *)
C32_TokensOwnedByVerifiedUsers ==
    \A n \in Rows :
        /\ origin[n].kind \in {"callback", "exchange", "rotation"}
        /\ origin[n].kind # "callback" => origin[n].parent \in 1..(n - 1)
        /\ origin[CodeOf(n)].sub \in Subjects
        /\ minted[n].user_id = minted[CodeOf(n)].user_id
        /\ minted[n].user_id \in 1..Len(users)
        /\ users[minted[n].user_id].google_id = origin[CodeOf(n)].sub

(* a rotated pair of the second subject, two steps away from the callback  *)
(* that verified it                                                        *)
C32_Witness ==
    \E n \in liveAcc :
        /\ origin[n].kind = "rotation"
        /\ origin[origin[n].parent].kind = "exchange"
        /\ origin[CodeOf(n)].sub = "u2"
        /\ users[minted[n].user_id].google_id = "u2"

(* C33: /authorize and /introspect are read-only: whatever the input and   *)
(* the outcome, the Client Registry, the Token Store and the User          *)
(* Directory are the same after the request as before and nothing is kept  *)
(* for later on the server; the request /authorize accepted travels in the *)
(* state value of its redirect.                                            *)
C33_AuthorizeAndIntrospectReadOnly ==
    [][(reply'.ep \in {"authorize", "introspect"} /\ reply' # reply)
       => /\ clients' = clients /\ users' = users
          /\ minted' = minted /\ liveAcc' = liveAcc /\ liveRef' = liveRef
          /\ inflight' = inflight
          /\ (reply'.ep = "authorize" /\ reply'.status = 302)
             => reply'.location.state.json =
                    [client_id |-> reply'.req.client_id,
                     redirect_uri |-> reply'.req.redirect_uri,
                     scope |-> reply'.req.scope, state |-> reply'.req.state]]_vars

(* a live token is introspected and found active, and is still there *)
C33_Witness ==
    /\ reply.ep = "introspect" /\ reply.status = 200 /\ reply.active
    /\ \E n \in liveAcc : reply.token = Acc(n)

(* C34: a refresh answered 200 replaces the key its caller presented, so   *)
(* that of two refreshes running with the same current key the key         *)
(* answered to the first still authenticates when the second is answered.  *)
C34_RefreshReplacesPresentedKey ==
    [][(/\ reply'.ep = "apikey" /\ reply'.route = "refresh" /\ reply'.status = 200
        /\ reply' # reply)
       => users[reply'.userId].api_key = reply'.presented]_vars

(* C35: storeSamples is idempotent on (user_id, type, start_date, source): *)
(* after a stored batch no two rows share a key, the rows stored before    *)
(* are unaltered, a row is added only for the first sample of the batch    *)
(* with a key not yet stored, every submitted key is then stored, the      *)
(* count returned is the number of rows added, and a batch whose keys are  *)
(* all stored, such as the same batch again, returns 0 and changes nothing.*)
C35_StoreSamplesIdempotent ==
    [][(/\ reply'.ep = "samples" /\ reply'.route = "POST /api/samples"
        /\ reply'.status = 200 /\ reply' # reply)
       => LET rows == HealthSamples(reply'.userId, reply'.batch)
              K(x) == <<x.user_id, x.type, x.start_date, x.source>>
          IN
          /\ samples \subseteq samples'
          /\ \A x, y \in samples' : K(x) = K(y) => x = y
          /\ \A x \in samples' \ samples :
                 \E i \in 1..Len(rows) :
                     /\ rows[i] = x
                     /\ \A j \in 1..(i - 1) : K(rows[j]) # K(x)
          /\ \A i \in 1..Len(rows) : \E x \in samples' : K(x) = K(rows[i])
          /\ reply'.inserted = Cardinality(samples' \ samples)
          /\ reply'.total = Len(rows)
          /\ (\A i \in 1..Len(rows) : \E x \in samples : K(x) = K(rows[i]))
             => reply'.inserted = 0 /\ samples' = samples]_vars

(* a batch of two samples with the key of a stored row and other values:   *)
(* nothing inserted, the stored value kept                                 *)
C35_Witness ==
    /\ reply.ep = "samples" /\ reply.route = "POST /api/samples" /\ reply.status = 200
    /\ reply.total = 2 /\ reply.inserted = 0
    /\ reply.batch[1].value = 110 /\ reply.batch[2].value = 95
    /\ reply.batch[1].startDate # reply.batch[2].startDate
    /\ \E x \in samples :
           /\ x.user_id = reply.userId /\ x.start_date = 630 /\ x.value = 95
    /\ ~\E x \in samples : x.user_id = reply.userId /\ x.value = 110

(* C36: storeSamples is all-or-nothing: when the insert of a sample of the *)
(* batch fails the answer is 500, the table is as it was before the batch, *)
(* the samples inserted before the failure included, the transaction was   *)
(* rolled back and the connection released; a batch answered 200 was       *)
(* committed and the connection released.                                  *)
C36_StoreSamplesAllOrNothing ==
    [][(/\ reply'.ep = "samples" /\ reply'.route = "POST /api/samples"
        /\ reply'.status \in {200, 500} /\ reply' # reply)
       => LET rows == HealthSamples(reply'.userId, reply'.batch)
              sql == reply'.sql
              failing == \E i \in 1..Len(rows) :
                             rows[i].type = "" \/ rows[i].start_date = -1
          IN
          /\ reply'.status = 500 <=> failing
          /\ reply'.status = 500 => samples' = samples
          /\ sql[1] = "connect" /\ sql[2] = "BEGIN" /\ sql[Len(sql)] = "release"
          /\ sql[Len(sql) - 1] = (IF failing THEN "ROLLBACK" ELSE "COMMIT")
          /\ Cardinality({i \in 1..Len(sql) : sql[i] \in {"connect", "release"}}) = 2]_vars

(* the first sample of the batch was new and inserted, the second failed: *)
(* 500 and no row of the first sample                                     *)
C36_Witness ==
    /\ reply.ep = "samples" /\ reply.route = "POST /api/samples" /\ reply.status = 500
    /\ Len(reply.batch) = 2
    /\ reply.batch[1].type # "" /\ ParseDate(reply.batch[1].startDate) # -1
    /\ reply.batch[2].type = ""
    /\ ~\E x \in samples :
           /\ x.user_id = reply.userId
           /\ x.start_date = ParseDate(reply.batch[1].startDate)

(* C37: after POST /api/food/log answered success for a request with an   *)
(* image, the stored food log has the photo_url of the response.           *)
C37_StoredPhotoUrlIsUploadUrl ==
    (/\ reply.ep = "food" /\ reply.route = "POST /log" /\ reply.status = 200
     /\ reply.req.image # "")
    => /\ reply.body.photoUrl # <<>>
       /\ \E x \in food_logs : x.id = reply.body.mealId /\ x.photo_url = reply.body.photoUrl

(* C38: PUT /api/food/:mealId on an existing meal answers success, sets    *)
(* manual_override and applies every field supplied in the body, leaving   *)
(* the other fields and the other meals unchanged; on a meal id that does  *)
(* not exist it answers 404 and changes nothing.                           *)
C38_UpdateAppliesSuppliedFields ==
    [][(/\ reply'.ep = "food" /\ reply'.route = "PUT /:mealId" /\ reply'.req.mealId # -1
        /\ reply' # reply)
       => LET id == reply'.req.mealId
              body == reply'.req.body
              macro(f) == "macros" \in DOMAIN body /\ f \in DOMAIN body.macros
          IN
          IF \E x \in food_logs : x.id = id
          THEN LET old == CHOOSE x \in food_logs : x.id = id
                   new == [old EXCEPT
                       !.manual_override = TRUE,
                       !.net_carbs = IF macro("netCarbs") THEN body.macros.netCarbs ELSE @,
                       !.protein = IF macro("protein") THEN body.macros.protein ELSE @,
                       !.fat = IF macro("fat") THEN body.macros.fat ELSE @,
                       !.calories = IF macro("calories") THEN body.macros.calories ELSE @,
                       !.notes = IF "notes" \in DOMAIN body THEN body.notes ELSE @,
                       !.foods = IF "foods" \in DOMAIN body THEN body.foods ELSE @,
                       !.meal_type = IF "mealType" \in DOMAIN body THEN body.mealType ELSE @]
               IN /\ reply'.status = 200
                  /\ food_logs' = (food_logs \ {old}) \cup {new}
          ELSE reply'.status = 404 /\ food_logs' = food_logs]_vars

(* C39: DELETE /api/food/:mealId?userId=U removes the meal, and only it,   *)
(* exactly when a log of that id owned by U exists, and answers success;   *)
(* otherwise the answer is 404 and nothing is removed; ids are not handed  *)
(* out again, so deleting the same meal again answers 404.                 *)
C39_DeleteOnlyOwnedMeal ==
    /\ [](\A x, y \in food_logs : x.id \in 1..food_logs_id_seq /\ (x.id = y.id => x = y))
    /\ [][(/\ reply'.ep = "food" /\ reply'.route = "DELETE /:mealId"
           /\ reply'.req.mealId # -1 /\ reply'.req.userId # "" /\ reply' # reply)
          => LET owned == {x \in food_logs :
                              x.id = reply'.req.mealId /\ x.user_id = reply'.req.userId}
             IN
             /\ food_logs' = food_logs \ owned
             /\ reply'.status = (IF owned = {} THEN 404 ELSE 200)
             /\ ~\E x \in food_logs' : x.id = reply'.req.mealId /\ x.user_id = reply'.req.userId
            ]_vars

(* the owner deletes a meal that was deleted before, while the meal of the *)
(* other user is still there: 404                                          *)
C39_Witness ==
    /\ reply.ep = "food" /\ reply.route = "DELETE /:mealId" /\ reply.status = 404
    /\ reply.req.mealId \in 1..food_logs_id_seq /\ reply.req.userId = "u1"
    /\ ~\E x \in food_logs : x.id = reply.req.mealId
    /\ \E x \in food_logs : x.user_id = "u2"

(* C40: the daily summary for a user and a calendar date is answered 200   *)
(* with the sums of net_carbs, protein, fat and calories over exactly the  *)
(* logs of that user whose timestamp falls on that date in Los Angeles,    *)
(* meal_count their number, and all zeros when there is none.              *)
C40_DailySummaryTotals ==
    (/\ reply.ep = "food" /\ reply.route = "GET /summary/daily"
     /\ reply.req.userId # "" /\ reply.req.date \in {"2025-10-25", "2025-10-26"})
    => LET day == IF reply.req.date = "2025-10-26" THEN 0 ELSE -1
           rows == {x \in food_logs : /\ x.user_id = reply.req.userId
                                      /\ x.timestamp \in (24 * day + 7)..(24 * day + 30)}
       IN
       /\ reply.status = 200
       /\ reply.body.total_net_carbs = Sum(rows, "net_carbs")
       /\ reply.body.total_protein = Sum(rows, "protein")
       /\ reply.body.total_fat = Sum(rows, "fat")
       /\ reply.body.total_calories = Sum(rows, "calories")
       /\ reply.body.meal_count = Cardinality(rows)
       /\ rows = {} => /\ reply.body.total_net_carbs = 0 /\ reply.body.total_protein = 0
                       /\ reply.body.total_fat = 0 /\ reply.body.total_calories = 0

(* two meals of one user, one of them corrected, the other on the evening  *)
(* before: the summary of the day counts the corrected one alone           *)
C40_Witness ==
    /\ reply.ep = "food" /\ reply.route = "GET /summary/daily" /\ reply.status = 200
    /\ reply.req.userId = "u1" /\ reply.req.date = "2025-10-26"
    /\ reply.body.meal_count = 1 /\ reply.body.total_net_carbs = 3
    /\ reply.body.total_calories = 350
    /\ Cardinality({x \in food_logs : x.user_id = "u1"}) = 2
    /\ \E x \in food_logs : x.timestamp = 3

====
